---- MODULE Spec2Model ----
(***************************************************************************)
(* A model of lcnc_logger.py, the LinuxCNC position logger: the polling    *)
(* tick MainWindow.update with its four edge-triggered channels, the log   *)
(* composer MainWindow.log, the message boxes and dialogs in which a       *)
(* handler is suspended while Qt runs a nested event loop, and the         *)
(* operator's edits of the widgets and of the G-code list.                 *)
(*                                                                         *)
(* A handler runs without interruption up to the next call of log or the   *)
(* next dialog; `stack` holds the handlers that have not returned yet.     *)
(***************************************************************************)
EXTENDS Integers, Sequences, FiniteSets, TLC

VARIABLES
    s,            \* self.s, the linuxcnc.stat() object after its last poll()
    w,            \* the widgets the handlers read and write
    self,         \* the fields of MainWindow set in setupVars / setupLogTimer
    gcodeLW,      \* the lines of the main-log list widget
    prescriptLW,  \* the lines of the prescript list widget
    postscriptLW, \* the lines of the postscript list widget
    stack,        \* the handlers in progress, innermost last
    alive,        \* FALSE once an uncaught exception has ended the process
    ev,           \* what the last step did (observation only)
    hist          \* per channel: the previous sample and the steadiness of its setup

vars == <<s, w, self, gcodeLW, prescriptLW, postscriptLW, stack, alive, ev, hist>>

-----------------------------------------------------------------------------
(* Bounds of the model.                                                    *)

\* the main log holds at most this many lines while the channels are studied,
\* whose lines are all alike; a handler that may log is not started when the
\* log could outgrow the bound
MaxLines == 4

\* the same bound while the composer is studied, whose lines differ
MaxCompose == 1

\* a file that is scanned holds at most this many lines
MaxFile == 3

\* a file that is opened over a document holds at most this many lines
MaxSaved == 2

\* the same bound while the one-shot cursor is studied
MaxOneShot == 2

MaxArc == 2

MaxRecord == 2

MaxAxes == 2

MaxInput == 2

MaxLine == 1

MaxLatch == 1

MaxLoad == 2

MaxPosition == 2

\* at most this many handlers are suspended in a dialog at the same time
MaxDepth == 2

-----------------------------------------------------------------------------
(* The machine and the widgets.                                            *)

\* axes of the machine: s.axis_mask selects X, Y and Z
axes == <<0, 1, 2>>

axes_letters == <<"X", "Y", "Z", "A", "B", "C", "U", "V", "W">>

Chan == {"din", "dout", "ain", "aout"}

\* the fixed order in which update evaluates the channels
ChanOrder == <<"din", "dout", "ain", "aout">>

\* the latch of a channel and the index it watches
ChanLog == [din |-> "dinLog", dout |-> "doutLog", ain |-> "ainLog", aout |-> "aoutLog"]

ChanInput == [din |-> "dinInput", dout |-> "doutInput", ain |-> "ainInput", aout |-> "aoutInput"]

\* the errors log reports with a message box
Taxonomy == {"MissingFeedRate", "MissingArcRadius", "NoPriorPosition",
             "DegenerateMove", "RadiusTooSmall"}

\* self.logToLine: None, or the row 'Log to this Line' stored
NoneRow == [none |-> TRUE, row |-> 0]

Row(k) == [none |-> FALSE, row |-> k]

\* the text of a position label: 'pos<i>' until the first tick, then a number
\* printed with `prec` decimals
PosLabel == [txt |-> "pos", num |-> 0, prec |-> 0]

\* '{0:0.{1}f}'.format(v, prec) for a whole number v
PyFormat(v, prec) == [txt |-> "num", num |-> v, prec |-> prec]

\* float(text) of a label succeeds exactly on a printed number
LabelIsFloat(lbl) == lbl.txt = "num"

LabelFloat(lbl) == lbl.num

\* the texts a line edit holds in the model, and float() of each
Texts == {"", "0", "3", "4", "5", "13", "-1", "x"}

TextIsFloat(t) == t \in {"0", "3", "4", "5", "13", "-1"}

TextFloat(t) ==
    CASE t = "0" -> 0 [] t = "3" -> 3 [] t = "4" -> 4 [] t = "5" -> 5 [] t = "13" -> 13
      [] t = "-1" -> 0 - 1 [] OTHER -> 0

\* one token of a composed line
Tok(k, txt, num, prec) == [k |-> k, txt |-> txt, num |-> num, prec |-> prec]

NewLine == <<Tok("text", ";new line", 0, 0)>>

Pop(st) == SubSeq(st, 1, Len(st) - 1)

Top(st) == st[Len(st)]

RECURSIVE SeqSum(_)
SeqSum(q) == IF q = <<>> THEN 0 ELSE q[1] + SeqSum(Tail(q))

\* QListWidget.insertItem(row, item): QListModel::insert clamps the row
insertItem(lw, row, item) ==
    LET r == IF row < 0 THEN 0 ELSE IF row > Len(lw) THEN Len(lw) ELSE row
    IN  SubSeq(lw, 1, r) \o <<item>> \o SubSeq(lw, r + 1, Len(lw))

\* QListWidget.takeItem(row): removes the row if there is one
takeItem(lw, row) ==
    IF row < 0 \/ row >= Len(lw) THEN lw
    ELSE SubSeq(lw, 1, row) \o SubSeq(lw, row + 2, Len(lw))

addItem(lw, item) == Append(lw, item)

-----------------------------------------------------------------------------
(* check_feed_arc_radius and check_lineEdit: the colour of the feed and    *)
(* arc-radius entries, which log reads back as "is the entry valid".       *)

White == "background: white;"

Yellow == "background: yellow;"

Red == "background: red;"

\* lineEdit.text() == 0 compares a str with an int: it is False for every text
TextEqualsZero(t) == FALSE

\* float(False) is 0.0 and float(True) is 1.0
BoolFloat(b) == IF b THEN 1 ELSE 0

\* the style sheet check_lineEdit gives an entry with text t
check_lineEdit(t) ==
    IF t = "" \/ BoolFloat(TextEqualsZero(t)) # 0 THEN Yellow
    ELSE IF ~TextIsFloat(t) THEN Red
    ELSE IF TextFloat(t) < 0 THEN Red
    ELSE White

\* the widgets after check_feed_arc_radius has run on widgets wd
check_feed_arc_radius(wd) ==
    [wd EXCEPT
       !.feedStyle = IF wd.moveType \in {"G1", "G2", "G3"}
                     THEN check_lineEdit(wd.feedLE) ELSE White,
       !.arcRadiusStyle = IF wd.moveType \in {"G2", "G3"}
                          THEN check_lineEdit(wd.arcRadiusLE) ELSE White]

\* 'background: white' in lineEdit.styleSheet()
HasWhite(style) == style = White

-----------------------------------------------------------------------------
(* The script file.  A text is a sequence of pieces: a newline, or the     *)
(* characters of one line of a list, which hold no newline; a line with no *)
(* characters gives no piece.                                              *)

prescript_start == ";prescript_start"

prescript_end == ";prescript_end"

postscript_start == ";postscript_start"

postscript_end == ";postscript_end"

\* the item of a list widget whose text is t
Item(t) == <<Tok("text", t, 0, 0)>>

\* the text of an item that is plain text, or "gcode" for a composed line,
\* which is neither empty nor a marker
ItemText(line) ==
    IF Len(line) = 1 /\ line[1].k \in {"text", "cmt"} THEN line[1].txt ELSE "gcode"

NL == [nl |-> TRUE, line |-> <<>>]

\* f.write of the text of one line
Chars(line) == IF ItemText(line) = "" THEN <<>> ELSE <<[nl |-> FALSE, line |-> line]>>

\* '\n'.join of the texts of the lines
RECURSIVE Join(_)
Join(lines) ==
    IF lines = <<>> THEN <<>>
    ELSE IF Len(lines) = 1 THEN Chars(lines[1])
    ELSE Chars(lines[1]) \o <<NL>> \o Join(Tail(lines))

\* the text save writes for the three lists under the toggles of widgets wd
save(wd, prescript, gcode, postscript) ==
    (IF wd.prescriptCB
     THEN Chars(Item(prescript_start)) \o <<NL>> \o Join(prescript)
          \o <<NL>> \o Chars(Item(prescript_end)) \o <<NL>>
     ELSE <<>>)
    \o Join(gcode)
    \o (IF wd.postscriptCB
        THEN <<NL>> \o Chars(Item(postscript_start)) \o <<NL>> \o Join(postscript)
             \o <<NL>> \o Chars(Item(postscript_end)) \o <<NL>>
        ELSE <<>>)

\* the line with the characters cur: the item it came from when it is one piece
LineOf(cur) ==
    IF cur = <<>> THEN Item("")
    ELSE IF Len(cur) = 1 THEN cur[1].line
    ELSE [i \in 1..Len(cur) |-> Tok("text", ItemText(cur[i].line), 0, 0)]

\* `for line in f` with line.strip('\n'): the lines of a text, of which the last
\* needs no newline
RECURSIVE FileLines(_, _)
FileLines(text, cur) ==
    IF text = <<>> THEN (IF cur = <<>> THEN <<>> ELSE <<LineOf(cur)>>)
    ELSE IF text[1].nl THEN <<LineOf(cur)>> \o FileLines(Tail(text), <<>>)
    ELSE FileLines(Tail(text), Append(cur, text[1]))

\* the scan of openFile over the lines from line i on, in region gcode_type;
\* doc holds the three lists filled so far
RECURSIVE Scan(_, _, _, _, _)
Scan(lines, i, gcode_type, doc, wd) ==
    IF i > Len(lines) THEN doc
    ELSE LET line == lines[i]
             txt == ItemText(line)
         IN  IF txt = prescript_start THEN Scan(lines, i + 1, "prescript", doc, wd)
             ELSE IF txt = prescript_end THEN Scan(lines, i + 1, "log", doc, wd)
             ELSE IF txt = postscript_start THEN Scan(lines, i + 1, "postscript", doc, wd)
             ELSE IF txt = postscript_end THEN Scan(lines, i + 1, "log", doc, wd)
             ELSE IF gcode_type = "prescript"
             THEN Scan(lines, i + 1, gcode_type,
                       IF wd.prescriptCB THEN [doc EXCEPT !.prescript = Append(@, line)] ELSE doc,
                       wd)
             ELSE IF gcode_type = "log"
             THEN Scan(lines, i + 1, gcode_type, [doc EXCEPT !.gcode = Append(@, line)], wd)
             ELSE Scan(lines, i + 1, gcode_type,
                       IF wd.postscriptCB THEN [doc EXCEPT !.postscript = Append(@, line)] ELSE doc,
                       wd)

\* a faulty load whose scan starts in the prescript
load_in_prescript(text, wd, prescript, postscript) ==
    Scan(FileLines(text, <<>>), 1, "prescript",
         [prescript |-> IF wd.prescriptCB THEN <<>> ELSE prescript,
          gcode |-> <<>>,
          postscript |-> IF wd.postscriptCB THEN <<>> ELSE postscript],
         wd)

\* a load that fills the prescript and the postscript whether they are shown or
\* not
load_ignoring_toggles(text, wd, prescript, postscript) ==
    Scan(FileLines(text, <<>>), 1, "log",
         [prescript |-> <<>>, gcode |-> <<>>, postscript |-> <<>>],
         [wd EXCEPT !.prescriptCB = TRUE, !.postscriptCB = TRUE])


\* the three lists after openFile has loaded a text over the lists
\* prescript and postscript
load(text, wd, prescript, postscript) ==
    Scan(FileLines(text, <<>>), 1, "log",
         [prescript |-> IF wd.prescriptCB THEN <<>> ELSE prescript,
          gcode |-> <<>>,
          postscript |-> IF wd.postscriptCB THEN <<>> ELSE postscript],
         wd)

-----------------------------------------------------------------------------
(* The edge detectors of update.                                           *)

\* one digital channel: "log" (call log, then set the latch), "clear" (clear
\* the latch) or "keep"
digital_edge(logic, value, checked, latch) ==
    IF logic = "true"
    THEN IF value /\ checked /\ ~latch THEN "log"
         ELSE IF ~value /\ latch THEN "clear"
         ELSE "keep"
    ELSE IF ~value /\ checked /\ ~latch THEN "log"
         ELSE IF value /\ latch THEN "clear"
         ELSE "keep"

\* the on and off values are ordered as the on logic needs
Ordered(onLogic, onValue, offValue) ==
    \/ onLogic = ">" /\ onValue > offValue
    \/ onLogic = "<" /\ onValue < offValue

\* the sample passes the on value in the direction of the on logic
PassesOn(onLogic, onValue, value) == IF onLogic = ">" THEN value > onValue ELSE value < onValue

\* the sample passes the off value in the other direction
PassesOff(onLogic, offValue, value) == IF onLogic = ">" THEN value < offValue ELSE value > offValue

\* a faulty detector that takes equal on and off values for ordered
analog_edge_equal(onLogic, onValue, offValue, value, checked, latch) ==
    IF onLogic = ">" /\ onValue >= offValue
    THEN [act |-> IF value > onValue /\ checked /\ ~latch THEN "log"
                  ELSE IF value < offValue /\ latch THEN "clear"
                  ELSE "keep",
          style |-> White]
    ELSE IF onLogic = "<" /\ onValue <= offValue
    THEN [act |-> IF value < onValue /\ checked /\ ~latch THEN "log"
                  ELSE IF value > offValue /\ latch THEN "clear"
                  ELSE "keep",
          style |-> White]
    ELSE [act |-> "config", style |-> Yellow]

\* one analog channel: what to do, as for a digital channel, and the style sheet
\* of its on and off value boxes; "config" with yellow boxes when the on and off
\* values are not ordered as the on logic needs
analog_edge(onLogic, onValue, offValue, value, checked, latch) ==
    IF onLogic = ">" /\ onValue > offValue
    THEN [act |-> IF value > onValue /\ checked /\ ~latch THEN "log"
                  ELSE IF value < offValue /\ latch THEN "clear"
                  ELSE "keep",
          style |-> White]
    ELSE IF onLogic = "<" /\ onValue < offValue
    THEN [act |-> IF value < onValue /\ checked /\ ~latch THEN "log"
                  ELSE IF value > offValue /\ latch THEN "clear"
                  ELSE "keep",
          style |-> White]
    ELSE [act |-> "config", style |-> Yellow]

-----------------------------------------------------------------------------
(* MainWindow.log, the composer.  A run of log ends in one of four ways:   *)
(* "done" (it returned), "mbox" (it shows an error box), "save" (it has    *)
(* logged and shows the save dialog of autosave) or "raise" (an exception  *)
(* leaves it).  Each operator gives the way and the fields log has set.    *)

Res(kind, err, exc, sf, lw, cp, gcode) ==
    [kind |-> kind, err |-> err, exc |-> exc, self |-> sf, gcodeLW |-> lw,
     cp |-> cp, gcode |-> gcode, msg |-> 0]

\* the axes whose check box exists and is checked, in the order of axis_cbs
log_axes == SelectSeq(<<0, 1, 2, 3, 4, 5, 6, 7, 8>>, LAMBDA cb : w.axis_cbs[cb] = "checked")

\* the text of the position label of each logged axis
log_labels == [k \in 1..Len(log_axes) |-> w.position_lbs[log_axes[k]]]

\* a faulty log that forgets the last position before it reports an error
log_abort_forgets(err) ==
    Res("mbox", err, "", [self EXCEPT !.lastPosition = <<>>], gcodeLW, <<>>, <<>>)

\* self.mbox(..., 'critical'); return: the message box is shown and nothing is set
log_abort(err) == Res("mbox", err, "", self, gcodeLW, <<>>, <<>>)

\* an exception leaves log: nothing is set
log_raise(exc) == Res("raise", "", exc, self, gcodeLW, <<>>, <<>>)

\* the list after the composed line has been put into it
log_insert(lw, logToLine, line) ==
    IF ~logToLine.none
    THEN takeItem(insertItem(lw, logToLine.row, line), logToLine.row + 1)
    ELSE addItem(lw, line)

\* a faulty end of log that leaves lastPosition as it was
log_store_stale(gcode) ==
    LET sf == [self EXCEPT !.logToLine = NoneRow]
        lw == log_insert(gcodeLW, self.logToLine, gcode)
    IN  IF w.autosaveCB /\ ~self.filePathIsFile
        THEN Res("save", "", "", sf, lw, <<>>, gcode)
        ELSE IF w.autosaveCB
        THEN Res("done", "", "",
                 [sf EXCEPT !.file = save(w, prescriptLW, lw, postscriptLW)], lw, <<>>, gcode)
        ELSE Res("done", "", "", sf, lw, <<>>, gcode)

\* a faulty end of log that keeps the cursor
log_store_keeps(gcode) ==
    LET sf == [self EXCEPT !.lastPosition = [k \in 1..Len(log_axes) |-> LabelFloat(log_labels[k])]]
        lw == log_insert(gcodeLW, self.logToLine, gcode)
    IN  IF w.autosaveCB /\ ~self.filePathIsFile
        THEN Res("save", "", "", sf, lw, <<>>, gcode)
        ELSE IF w.autosaveCB
        THEN Res("done", "", "",
                 [sf EXCEPT !.file = save(w, prescriptLW, lw, postscriptLW)], lw, <<>>, gcode)
        ELSE Res("done", "", "", sf, lw, <<>>, gcode)

\* from the insertion of the composed line to the end of log
log_store(gcode) ==
    LET sf == [self EXCEPT !.lastPosition = [k \in 1..Len(log_axes) |-> LabelFloat(log_labels[k])],
                           !.logToLine = NoneRow]
        lw == log_insert(gcodeLW, self.logToLine, gcode)
    IN  IF w.autosaveCB /\ ~self.filePathIsFile
        THEN Res("save", "", "", sf, lw, <<>>, gcode)
        ELSE IF w.autosaveCB
        THEN Res("done", "", "",
                 [sf EXCEPT !.file = save(w, prescriptLW, lw, postscriptLW)], lw, <<>>, gcode)
        ELSE Res("done", "", "", sf, lw, <<>>, gcode)

\* a faulty end of a line that adds the comment token even when there is no
\* comment
log_comment_always(gcode) ==
    log_store(Append(gcode, Tok(";", w.logCommentLE, 0, 0)))

\* the comment of a line in move-type mode, then the insertion
log_comment(gcode) ==
    log_store(IF w.logCommentLE # "" THEN Append(gcode, Tok(";", w.logCommentLE, 0, 0)) ELSE gcode)

RECURSIVE ISqrtIn(_, _, _)
ISqrtIn(n, lo, hi) ==
    IF hi - lo <= 1 THEN lo
    ELSE LET mid == (lo + hi) \div 2
         IN  IF mid * mid <= n THEN ISqrtIn(n, mid, hi) ELSE ISqrtIn(n, lo, mid)

\* the whole part of the square root of n, 0 <= n < 2^31
ISqrt(n) == ISqrtIn(n, 0, IF n < 46340 THEN n + 1 ELSE 46340)

\* a faulty centre that is displaced from the midpoint by the radius
arc_ij_by_radius(dx, dy, radius, moveType) ==
    LET d2 == dx * dx + dy * dy
        along(c) == LET m == ISqrt((10000 * c * c * radius * radius) \div d2)
                    IN  IF c < 0 THEN 0 - m ELSE m
    IN  IF moveType = "G2"
        THEN <<50 * dx + along(dy), 50 * dy - along(dx)>>
        ELSE <<50 * dx - along(dy), 50 * dy + along(dx)>>

\* a faulty centre that lies on the left for G2 and on the right for G3
arc_ij_swapped(dx, dy, radius, moveType) ==
    LET d2 == dx * dx + dy * dy
        along(c) == LET m == ISqrt((2500 * c * c * (4 * radius * radius - d2)) \div d2)
                    IN  IF c < 0 THEN 0 - m ELSE m
    IN  IF moveType = "G3"
        THEN <<50 * dx + along(dy), 50 * dy - along(dx)>>
        ELSE <<50 * dx - along(dy), 50 * dy + along(dx)>>

\* the arc centre offsets, in hundredths: the chord midpoint displaced by
\* center_offset at a right angle to the direction of travel.  With angle the
\* direction of the chord, cos(angle - pi/2) = sin(angle) = dy / distance and
\* sin(angle - pi/2) = -cos(angle) = -dx / distance, and center_offset is
\* sqrt(radius^2 - (distance/2)^2); along(c) is center_offset * c / distance in
\* hundredths, cut off towards zero
arc_ij(dx, dy, radius, moveType) ==
    LET d2 == dx * dx + dy * dy
        along(c) == LET m == ISqrt((2500 * c * c * (4 * radius * radius - d2)) \div d2)
                    IN  IF c < 0 THEN 0 - m ELSE m
    IN  IF moveType = "G2"
        THEN <<50 * dx + along(dy), 50 * dy - along(dx)>>
        ELSE <<50 * dx - along(dy), 50 * dy + along(dx)>>

\* '{0:0.4f}'.format(distance / 2), the radius the error box asks for, in
\* hundredths
minimum_radius(dx, dy) == ISqrt(2500 * (dx * dx + dy * dy))

\* a faulty log_arc that has no check of the chord: for a chord of length zero
\* the angle is atan2(0, 0) = 0 and the centre is the radius below or above
log_arc_unchecked(cp, gcode, moveType) ==
    IF Len(cp) < 1 \/ Len(self.lastPosition) < 1 THEN log_raise("IndexError")
    ELSE IF Len(cp) < 2 \/ Len(self.lastPosition) < 2 THEN log_raise("IndexError")
    ELSE LET dx == cp[1] - self.lastPosition[1]
             dy == cp[2] - self.lastPosition[2]
         IN  IF ~TextIsFloat(w.arcRadiusLE) THEN log_raise("ValueError")
             ELSE LET radius == TextFloat(w.arcRadiusLE)
                  IN  IF radius < 0 \/ 4 * radius * radius < dx * dx + dy * dy
                      THEN [log_abort("RadiusTooSmall") EXCEPT
                              !.msg = minimum_radius(dx, dy)]
                      ELSE LET ij == IF dx = 0 /\ dy = 0
                                     THEN <<0, IF moveType = "G2" THEN 0 - 100 * radius
                                               ELSE 100 * radius>>
                                     ELSE arc_ij(dx, dy, radius, moveType)
                           IN  log_comment(gcode \o <<Tok("I", "", ij[1], w.precisionSB),
                                                      Tok("J", "", ij[2], w.precisionSB)>>)

\* a faulty log_arc that asks for a radius above half the chord
log_arc_strict(cp, gcode, moveType) ==
    IF Len(cp) < 1 \/ Len(self.lastPosition) < 1 THEN log_raise("IndexError")
    ELSE IF Len(cp) < 2 \/ Len(self.lastPosition) < 2 THEN log_raise("IndexError")
    ELSE LET dx == cp[1] - self.lastPosition[1]
             dy == cp[2] - self.lastPosition[2]
         IN  IF dx = 0 /\ dy = 0 THEN log_abort("DegenerateMove")
             ELSE IF ~TextIsFloat(w.arcRadiusLE) THEN log_raise("ValueError")
             ELSE LET radius == TextFloat(w.arcRadiusLE)
                  IN  IF radius < 0 \/ 4 * radius * radius <= dx * dx + dy * dy
                      THEN [log_abort("RadiusTooSmall") EXCEPT
                              !.msg = minimum_radius(dx, dy)]
                      ELSE LET ij == arc_ij(dx, dy, radius, moveType)
                           IN  log_comment(gcode \o <<Tok("I", "", ij[1], w.precisionSB),
                                                      Tok("J", "", ij[2], w.precisionSB)>>)

\* log from the computation of dx on, for an arc move (G2 or G3)
log_arc(cp, gcode, moveType) ==
    IF Len(cp) < 1 \/ Len(self.lastPosition) < 1 THEN log_raise("IndexError")
    ELSE IF Len(cp) < 2 \/ Len(self.lastPosition) < 2 THEN log_raise("IndexError")
    ELSE LET dx == cp[1] - self.lastPosition[1]
             dy == cp[2] - self.lastPosition[2]
         IN  IF dx = 0 /\ dy = 0 THEN log_abort("DegenerateMove")
             ELSE IF ~TextIsFloat(w.arcRadiusLE) THEN log_raise("ValueError")
             ELSE LET radius == TextFloat(w.arcRadiusLE)
                  IN  IF radius < 0 \/ 4 * radius * radius < dx * dx + dy * dy
                      THEN [log_abort("RadiusTooSmall") EXCEPT
                              !.msg = minimum_radius(dx, dy)]
                      ELSE LET ij == arc_ij(dx, dy, radius, moveType)
                           IN  log_comment(gcode \o <<Tok("I", "", ij[1], w.precisionSB),
                                                      Tok("J", "", ij[2], w.precisionSB)>>)

\* log from its first line
log ==
    IF \E k \in 1..Len(log_axes) : ~LabelIsFloat(log_labels[k]) THEN log_raise("ValueError")
    ELSE LET currentPosition == [k \in 1..Len(log_axes) |-> LabelFloat(log_labels[k])]
         IN  IF w.moveTypeEnableCB
             THEN LET moveType == w.moveType
                      gcode == <<Tok("G", moveType, 0, 0)>> \o
                               [k \in 1..Len(log_axes) |->
                                  Tok(axes_letters[log_axes[k] + 1], "",
                                      log_labels[k].num, log_labels[k].prec)]
                  IN  IF moveType \in {"G1", "G2", "G3"}
                      THEN IF ~HasWhite(w.feedStyle) THEN log_abort("MissingFeedRate")
                           ELSE LET gcodeF == Append(gcode, Tok("F", w.feedLE, 0, 0))
                                IN  IF moveType \in {"G2", "G3"}
                                    THEN IF ~HasWhite(w.arcRadiusStyle)
                                         THEN log_abort("MissingArcRadius")
                                         ELSE IF Len(self.lastPosition) = 0
                                         THEN Res("mbox", "NoPriorPosition", "", self, gcodeLW,
                                                  currentPosition, gcodeF)
                                         ELSE log_arc(currentPosition, gcodeF, moveType)
                                    ELSE log_comment(gcodeF)
                      ELSE log_comment(gcode)
             ELSE log_store([k \in 1..Len(log_axes) |->
                               Tok("pos", "", log_labels[k].num, log_labels[k].prec)]
                            \o <<Tok("cmt", w.logCommentLE, 0, 0)>>)

-----------------------------------------------------------------------------
(* The handlers in progress.                                               *)

\* update between two channels; cp is filled with the positions its poll displayed
UpdateFrame(pc) ==
    [h |-> "update", pc |-> pc, ch |-> "", err |-> "", cp |-> <<>>, gcode |-> <<>>, mt |-> ""]

\* log, called by `caller`, suspended in the dialog its result r names
LogFrame(caller, r) ==
    [h |-> "log", pc |-> r.kind, ch |-> caller, err |-> r.err, cp |-> r.cp,
     gcode |-> r.gcode, mt |-> w.moveType]

\* eventFilter suspended in the confirmation box of 'Delete All Lines'
ConfirmFrame ==
    [h |-> "eventFilter", pc |-> "confirm", ch |-> "", err |-> "", cp |-> <<>>,
     gcode |-> <<>>, mt |-> ""]

\* a handler is running: the innermost handler is an update between two channels
Running == stack # <<>> /\ Top(stack).h = "update"

\* the event loop (the main one, or the nested one of the innermost dialog)
\* delivers timer events
Dispatching == alive /\ ~Running

\* the operator can reach the main window: no modal dialog is open
Interactive == alive /\ stack = <<>>

Depth == Cardinality({i \in DOMAIN stack : stack[i].h # "update"})

ChanIndex(ch) == CHOOSE i \in 1..4 : ChanOrder[i] = ch

ChanChecked(ch) ==
    CASE ch = "din" -> w.dinCB [] ch = "dout" -> w.doutCB
      [] ch = "ain" -> w.ainCB [] ch = "aout" -> w.aoutCB

\* the lines the handlers in progress may still add to the main log
Pending ==
    SeqSum([i \in 1..Len(stack) |->
              IF stack[i].h = "update"
              THEN Cardinality({c \in Chan : ChanIndex(c) >= ChanIndex(stack[i].pc) /\ ChanChecked(c)})
              ELSE IF stack[i].h = "log" /\ stack[i].ch \notin Chan THEN 1 ELSE 0])

\* the log that finds the cursor on a line of the list replaces it and adds none
Reuse == IF ~self.logToLine.none /\ self.logToLine.row >= 0 /\ self.logToLine.row < Len(gcodeLW)
         THEN 1 ELSE 0

\* a handler that may add n lines can start under the bound cap
Room(n, cap) == Len(gcodeLW) + Pending + n - Reuse <= cap

\* update goes on to the next channel, or returns after the last one
Advance(st) ==
    IF Top(st).pc = "aout" THEN Pop(st)
    ELSE [st EXCEPT ![Len(st)].pc = ChanOrder[ChanIndex(Top(st).pc) + 1]]

\* a faulty update that forgets the latch after log
after_log_forgets(sf, ch) == sf

\* `self.dinLog = True` and its like: update sets the latch of channel ch when
\* log has returned
after_log(sf, ch) == [sf EXCEPT ![ChanLog[ch]] = TRUE]

\* the style sheets update sets after the branch of an analog channel
after_log_style(wd, ch) ==
    IF ch = "ain" THEN [wd EXCEPT !.ainStyle = White]
    ELSE IF ch = "aout" THEN [wd EXCEPT !.aoutStyle = White]
    ELSE wd

NoEvent == [op |-> "", ch |-> "", fired |-> FALSE, src |-> "", res |-> "", ret |-> "", err |-> "",
            cur |-> NoneRow, msg |-> 0]

\* what a run of log with result r did: a line, an error box or an exception
ResOf(r) == IF r.kind \in {"done", "save"} THEN "ok" ELSE IF r.kind = "mbox" THEN r.err ELSE r.exc

RetOf(r) == IF r.kind = "done" THEN "return" ELSE IF r.kind = "raise" THEN "raise" ELSE "blocked"

\* the step in which log, called by `caller` over the handlers `base`, ends a
\* run with result r: it returns to its caller, is suspended in a dialog, or an
\* exception leaves the handler, which PyQt either reports or ends the process for
Complete(base, caller, r, op, fired, res, err) ==
    /\ gcodeLW' = r.gcodeLW
    /\ UNCHANGED <<s, prescriptLW, postscriptLW>>
    /\ CASE r.kind = "done" ->
              /\ self' = IF caller \in Chan THEN after_log(r.self, caller) ELSE r.self
              /\ w' = IF caller \in Chan THEN after_log_style(w, caller) ELSE w
              /\ stack' = IF caller \in Chan THEN Advance(base) ELSE base
              /\ alive' = alive
         [] r.kind \in {"mbox", "save"} ->
              /\ self' = r.self
              /\ w' = w
              /\ stack' = Append(base, LogFrame(caller, r))
              /\ alive' = alive
         [] r.kind = "raise" ->
              /\ self' = r.self
              /\ w' = w
              /\ stack' = IF caller \in Chan THEN Pop(base) ELSE base
              /\ alive' \in BOOLEAN
    /\ ev' = [op |-> op, ch |-> IF fired THEN caller ELSE "", fired |-> fired,
              src |-> caller, res |-> res, ret |-> RetOf(r), err |-> err,
              cur |-> self.logToLine, msg |-> r.msg]

\* Evaluate with a clearing branch that clears the latches of all four channels
Evaluate_clears_all(ch, act, wd, op) ==
    IF act = "log"
    THEN Complete(stack, ch, log, op, TRUE, ResOf(log), IF log.kind = "mbox" THEN log.err ELSE "")
    ELSE /\ self' = IF act = "clear"
                    THEN [self EXCEPT !.dinLog = FALSE, !.doutLog = FALSE,
                                      !.ainLog = FALSE, !.aoutLog = FALSE]
                    ELSE self
         /\ w' = wd
         /\ stack' = Advance(stack)
         /\ ev' = [NoEvent EXCEPT !.op = op, !.ch = ch]
         /\ UNCHANGED <<s, gcodeLW, prescriptLW, postscriptLW, alive>>


\* the step of update for channel ch whose detector says act; wd are the widgets
\* with the style sheets of an analog channel set
Evaluate(ch, act, wd, op) ==
    IF act = "log"
    THEN Complete(stack, ch, log, op, TRUE, ResOf(log), IF log.kind = "mbox" THEN log.err ELSE "")
    ELSE /\ self' = IF act = "clear" THEN [self EXCEPT ![ChanLog[ch]] = FALSE] ELSE self
         /\ w' = wd
         /\ stack' = Advance(stack)
         /\ ev' = [NoEvent EXCEPT !.op = op, !.ch = ch]
         /\ UNCHANGED <<s, gcodeLW, prescriptLW, postscriptLW, alive>>

-----------------------------------------------------------------------------
(* MainWindow.update: the poll, then one step for each channel.            *)

NoLabel == [txt |-> "None", num |-> 0, prec |-> 0]

\* the position update displays for axis i of status st
display(st, i) ==
    IF w.positionCB = "relative"
    THEN (0 - (st.g5x_offset[i + 1] + st.g92_offset[i + 1] + st.tool_offset[i + 1]))
         + st.actual_position[i + 1]
    ELSE st.actual_position[i + 1]

\* the sample of a digital channel is in the state its logic logs
InLogged(logic, value) == value = (logic = "true")

\* the sample status st holds for channel c is one the channel logs
MayLog(c, st) ==
    CASE c = "din" -> InLogged(w.dinLogic, st.din[self.dinInput])
      [] c = "dout" -> InLogged(w.doutLogic, st.dout[self.doutInput])
      [] c = "ain" -> analog_edge(w.ainOnLogic, w.ainOnValue, w.ainOffValue,
                                  st.ain[self.ainInput], TRUE, FALSE).act = "log"
      [] c = "aout" -> analog_edge(w.aoutOnLogic, w.aoutOnValue, w.aoutOffValue,
                                   st.aout[self.aoutInput], TRUE, FALSE).act = "log"

\* an update that polls and leaves the position labels as they are
update_poll_stale_labels(st, cap) ==
    /\ Dispatching
    /\ Depth < MaxDepth
    /\ Room(Cardinality({c \in Chan : ChanChecked(c) /\ MayLog(c, st)}), cap)
    /\ s' = st
    /\ w' = [w EXCEPT !.position_lbs =
                [i \in 0..8 |-> IF (\E k \in 1..Len(axes) : axes[k] = i) /\ @[i] = PosLabel
                                THEN PyFormat(display(st, i), w.precisionSB)
                                ELSE @[i]]]
    /\ stack' = Append(stack, [UpdateFrame("din") EXCEPT
                                 !.cp = [i \in 1..9 |-> display(st, i - 1)]])
    /\ ev' = [NoEvent EXCEPT !.op = "update"]
    /\ UNCHANGED <<self, gcodeLW, prescriptLW, postscriptLW, alive, hist>>

\* the timer calls update: poll() gives status st, the position labels are set,
\* and the channels are evaluated next
\* (the frame of update keeps the positions this poll displayed, for observation)
update_poll(st, cap) ==
    /\ Dispatching
    /\ Depth < MaxDepth
    /\ Room(Cardinality({c \in Chan : ChanChecked(c) /\ MayLog(c, st)}), cap)
    /\ s' = st
    /\ w' = [w EXCEPT !.position_lbs =
                [i \in 0..8 |-> IF (\E k \in 1..Len(axes) : axes[k] = i) /\ @[i] # NoLabel
                                THEN PyFormat(display(st, i), w.precisionSB)
                                ELSE @[i]]]
    /\ stack' = Append(stack, [UpdateFrame("din") EXCEPT
                                 !.cp = [i \in 1..9 |-> display(st, i - 1)]])
    /\ ev' = [NoEvent EXCEPT !.op = "update"]
    /\ UNCHANGED <<self, gcodeLW, prescriptLW, postscriptLW, alive, hist>>

\* the state of an analog channel after a sample: logged once the sample has
\* passed the on value, idle once it has passed the off value
Hysteresis(onLogic, onValue, offValue, value, prev) ==
    IF ~Ordered(onLogic, onValue, offValue) THEN prev
    ELSE IF PassesOn(onLogic, onValue, value) THEN "logged"
    ELSE IF PassesOff(onLogic, offValue, value) THEN "idle"
    ELSE prev

\* log on digital input
update_din ==
    /\ alive /\ Running /\ Top(stack).pc = "din"
    /\ LET value == s.din[self.dinInput]
       IN  /\ Evaluate("din", digital_edge(w.dinLogic, value, w.dinCB, self.dinLog), w,
                       "update_din")
           /\ hist' = [hist EXCEPT !.prev.din =
                          IF InLogged(w.dinLogic, value) THEN "logged" ELSE "idle"]

\* log on digital output
update_dout ==
    /\ alive /\ Running /\ Top(stack).pc = "dout"
    /\ LET value == s.dout[self.doutInput]
       IN  /\ Evaluate("dout", digital_edge(w.doutLogic, value, w.doutCB, self.doutLog), w,
                       "update_dout")
           /\ hist' = [hist EXCEPT !.prev.dout =
                          IF InLogged(w.doutLogic, value) THEN "logged" ELSE "idle"]

\* log on analog input
update_ain ==
    /\ alive /\ Running /\ Top(stack).pc = "ain"
    /\ LET e == analog_edge(w.ainOnLogic, w.ainOnValue, w.ainOffValue,
                            s.ain[self.ainInput], w.ainCB, self.ainLog)
       IN  Evaluate("ain", e.act, [w EXCEPT !.ainStyle = e.style], "update_ain")
    /\ hist' = [hist EXCEPT !.prev.ain =
                   Hysteresis(w.ainOnLogic, w.ainOnValue, w.ainOffValue, s.ain[self.ainInput], @)]

\* log on analog output
update_aout ==
    /\ alive /\ Running /\ Top(stack).pc = "aout"
    /\ LET e == analog_edge(w.aoutOnLogic, w.aoutOnValue, w.aoutOffValue,
                            s.aout[self.aoutInput], w.aoutCB, self.aoutLog)
       IN  Evaluate("aout", e.act, [w EXCEPT !.aoutStyle = e.style], "update_aout")
    /\ hist' = [hist EXCEPT !.prev.aout =
                   Hysteresis(w.aoutOnLogic, w.aoutOnValue, w.aoutOffValue, s.aout[self.aoutInput], @)]

-----------------------------------------------------------------------------
(* The other callers of log, and the dialogs.                              *)

\* logPB.clicked
log_clicked(cap) ==
    /\ Interactive
    /\ Room(1, cap)
    /\ Complete(stack, "manual", log, "log_clicked", FALSE, ResOf(log),
                IF log.kind = "mbox" THEN log.err ELSE "")
    /\ UNCHANGED hist

\* recordTimer.timeout
recordTimer_timeout(cap) ==
    /\ Dispatching
    /\ self.recordTimer
    /\ Depth < MaxDepth
    /\ Room(1, cap)
    /\ Complete(stack, "interval", log, "recordTimer_timeout", FALSE, ResOf(log),
                IF log.kind = "mbox" THEN log.err ELSE "")
    /\ UNCHANGED hist

\* the operator closes the error box of the innermost log: msg.exec_() returns
\* and log goes on after its call of mbox, which for all errors but the missing
\* last position is a return
mbox ==
    /\ alive /\ stack # <<>>
    /\ Top(stack).h = "log" /\ Top(stack).pc = "mbox"
    /\ LET f == Top(stack)
           r == IF f.err = "NoPriorPosition"
                THEN log_arc(f.cp, f.gcode, f.mt)
                ELSE Res("done", "", "", self, gcodeLW, <<>>, <<>>)
       IN  Complete(Pop(stack), f.ch, r, "mbox",
                    FALSE, IF f.err = "NoPriorPosition" THEN ResOf(r) ELSE "", f.err)
    /\ UNCHANGED hist

\* the save dialog of autosave returns, with a file name or without one, and
\* log returns
saveFileAs(chosen) ==
    /\ alive /\ stack # <<>>
    /\ Top(stack).h = "log" /\ Top(stack).pc = "save"
    /\ LET f == Top(stack)
           sf == IF chosen
                 THEN [self EXCEPT !.filePathIsFile = TRUE,
                                   !.file = save(w, prescriptLW, gcodeLW, postscriptLW)]
                 ELSE self
       IN  Complete(Pop(stack), f.ch, Res("done", "", "", sf, gcodeLW, <<>>, <<>>),
                    "saveFileAs", FALSE, "", "")
    /\ UNCHANGED hist

\* a handler of the File menu suspended in its file dialog
FileFrame(h) ==
    [h |-> h, pc |-> "dialog", ch |-> "", err |-> "", cp |-> <<>>, gcode |-> <<>>, mt |-> ""]

\* actionOpen.triggered: openFile shows its file dialog
openFile ==
    /\ Interactive
    /\ stack' = Append(stack, FileFrame("openFile"))
    /\ ev' = [NoEvent EXCEPT !.op = "openFile"]
    /\ UNCHANGED <<s, w, self, gcodeLW, prescriptLW, postscriptLW, alive, hist>>

\* the dialog of openFile returns: with no file name, or with the name of a file
\* that holds text, which is the file of filePath when `own` says so
getOpenFileName(picked, own, text) ==
    /\ alive /\ stack # <<>>
    /\ Top(stack).h = "openFile"
    /\ own => (picked /\ self.filePathIsFile /\ text = self.file)
    /\ stack' = Pop(stack)
    /\ LET doc == load(text, w, prescriptLW, postscriptLW)
       IN  /\ gcodeLW' = IF picked THEN doc.gcode ELSE gcodeLW
           /\ prescriptLW' = IF picked THEN doc.prescript ELSE prescriptLW
           /\ postscriptLW' = IF picked THEN doc.postscript ELSE postscriptLW
    /\ self' = IF picked THEN [self EXCEPT !.filePathIsFile = TRUE, !.file = text] ELSE self
    /\ ev' = [NoEvent EXCEPT !.op = "getOpenFileName",
                             !.res = IF ~picked THEN "" ELSE IF own THEN "own" ELSE "other"]
    /\ UNCHANGED <<s, w, alive, hist>>

\* actionSave.triggered or savePB.clicked: saveFile saves to the file of filePath,
\* or shows the dialog of saveFileAs when there is none
saveFile ==
    /\ Interactive
    /\ self' = IF self.filePathIsFile
               THEN [self EXCEPT !.file = save(w, prescriptLW, gcodeLW, postscriptLW)]
               ELSE self
    /\ stack' = IF self.filePathIsFile THEN stack ELSE Append(stack, FileFrame("saveFileAs"))
    /\ ev' = [NoEvent EXCEPT !.op = "saveFile"]
    /\ UNCHANGED <<s, w, gcodeLW, prescriptLW, postscriptLW, alive, hist>>

\* the dialog of saveFileAs returns, with a file name or without one
getSaveFileName(chosen) ==
    /\ alive /\ stack # <<>>
    /\ Top(stack).h = "saveFileAs"
    /\ stack' = Pop(stack)
    /\ self' = IF chosen
               THEN [self EXCEPT !.filePathIsFile = TRUE,
                                 !.file = save(w, prescriptLW, gcodeLW, postscriptLW)]
               ELSE self
    /\ ev' = [NoEvent EXCEPT !.op = "getSaveFileName"]
    /\ UNCHANGED <<s, w, gcodeLW, prescriptLW, postscriptLW, alive, hist>>

\* prescriptCB.stateChanged
prescriptCB_Clicked ==
    /\ Interactive
    /\ w' = [w EXCEPT !.prescriptCB = ~@]
    /\ ev' = [NoEvent EXCEPT !.op = "prescriptCB"]
    /\ UNCHANGED <<s, self, gcodeLW, prescriptLW, postscriptLW, stack, alive, hist>>

\* postscriptCB.stateChanged
postscriptCB_Clicked ==
    /\ Interactive
    /\ w' = [w EXCEPT !.postscriptCB = ~@]
    /\ ev' = [NoEvent EXCEPT !.op = "postscriptCB"]
    /\ UNCHANGED <<s, self, gcodeLW, prescriptLW, postscriptLW, stack, alive, hist>>

\* startPB / stopPB clicked
record(start) ==
    /\ Interactive
    /\ self' = [self EXCEPT !.recordTimer = start]
    /\ ev' = [NoEvent EXCEPT !.op = "record"]
    /\ UNCHANGED <<s, w, gcodeLW, prescriptLW, postscriptLW, stack, alive, hist>>

-----------------------------------------------------------------------------
(* The operator's edits of the widgets.  They need the main window, which  *)
(* a modal dialog blocks.                                                  *)

\* a widget without a handler of its own is set to a new value
Edit(wd, op) ==
    /\ Interactive
    /\ w' = wd
    /\ ev' = [NoEvent EXCEPT !.op = op]
    /\ UNCHANGED <<s, self, gcodeLW, prescriptLW, postscriptLW, stack, alive>>

\* a channel is no longer in a steady setup once it is disabled or its logic or
\* its on and off values are changed
Unsteady(ch) == [hist EXCEPT !.steady[ch] = FALSE]

dinCB_toggled ==
    /\ Edit([w EXCEPT !.dinCB = ~@], "dinCB")
    /\ hist' = Unsteady("din")

doutCB_toggled ==
    /\ Edit([w EXCEPT !.doutCB = ~@], "doutCB")
    /\ hist' = Unsteady("dout")

dinLogic_changed ==
    /\ Edit([w EXCEPT !.dinLogic = IF @ = "true" THEN "false" ELSE "true"], "dinLogic")
    /\ hist' = Unsteady("din")

doutLogic_changed ==
    /\ Edit([w EXCEPT !.doutLogic = IF @ = "true" THEN "false" ELSE "true"], "doutLogic")
    /\ hist' = Unsteady("dout")

ainCB_toggled ==
    /\ Edit([w EXCEPT !.ainCB = ~@], "ainCB")
    /\ hist' = Unsteady("ain")

aoutCB_toggled ==
    /\ Edit([w EXCEPT !.aoutCB = ~@], "aoutCB")
    /\ hist' = Unsteady("aout")

ainOnLogic_changed ==
    /\ Edit([w EXCEPT !.ainOnLogic = IF @ = ">" THEN "<" ELSE ">"], "ainOnLogic")
    /\ hist' = Unsteady("ain")

aoutOnLogic_changed ==
    /\ Edit([w EXCEPT !.aoutOnLogic = IF @ = ">" THEN "<" ELSE ">"], "aoutOnLogic")
    /\ hist' = Unsteady("aout")

ainOnValue_changed(v) ==
    /\ v # w.ainOnValue
    /\ Edit([w EXCEPT !.ainOnValue = v], "ainOnValue")
    /\ hist' = Unsteady("ain")

ainOffValue_changed(v) ==
    /\ v # w.ainOffValue
    /\ Edit([w EXCEPT !.ainOffValue = v], "ainOffValue")
    /\ hist' = Unsteady("ain")


moveTypeEnableCB_toggled ==
    /\ Edit([w EXCEPT !.moveTypeEnableCB = ~@], "moveTypeEnableCB")
    /\ UNCHANGED hist

\* a move-type radio button is chosen: g1RB, g2RB or g3RB is toggled
moveType_toggled(mt) ==
    /\ mt # w.moveType
    /\ Edit(check_feed_arc_radius([w EXCEPT !.moveType = mt]), "moveType")
    /\ UNCHANGED hist

\* feedLE.textEdited
feedLE_textEdited(t) ==
    /\ t # w.feedLE
    /\ Edit(check_feed_arc_radius([w EXCEPT !.feedLE = t]), "feedLE")
    /\ UNCHANGED hist

\* arcRadiusLE.textEdited
arcRadiusLE_textEdited(t) ==
    /\ t # w.arcRadiusLE
    /\ Edit(check_feed_arc_radius([w EXCEPT !.arcRadiusLE = t]), "arcRadiusLE")
    /\ UNCHANGED hist

\* changeInput: the indices of the digital channels are read from their spin
\* boxes in the widgets wd
changeInput(wd) == [self EXCEPT !.dinInput = wd.dinSB, !.doutInput = wd.doutSB]

\* the spin box of the index of channel ch is set to v: dinSB and doutSB call
\* changeInput, ainSB and aoutSB have no handler
inputSB_valueChanged(ch, v) ==
    /\ Interactive
    /\ w' = IF ch = "din" THEN [w EXCEPT !.dinSB = v]
            ELSE IF ch = "dout" THEN [w EXCEPT !.doutSB = v]
            ELSE IF ch = "ain" THEN [w EXCEPT !.ainSB = v]
            ELSE [w EXCEPT !.aoutSB = v]
    /\ w' # w
    /\ self' = IF ch \in {"din", "dout"} THEN changeInput(w') ELSE self
    /\ ev' = [NoEvent EXCEPT !.op = "inputSB"]
    /\ hist' = Unsteady(ch)
    /\ UNCHANGED <<s, gcodeLW, prescriptLW, postscriptLW, stack, alive>>

\* the check box of axis i, which has no handler, is clicked
axisCB_toggled(i) ==
    /\ w.axis_cbs[i] # "None"
    /\ Edit([w EXCEPT !.axis_cbs[i] = IF @ = "checked" THEN "unchecked" ELSE "checked"],
            "axisCB")
    /\ UNCHANGED hist

-----------------------------------------------------------------------------
(* eventFilter: the context menu of the main-log list.  currentRow is the  *)
(* row of the item the menu was opened on, or -1 when there is none.       *)

ListEdit(lw, sf, op) ==
    /\ Interactive
    /\ gcodeLW' = lw
    /\ self' = sf
    /\ ev' = [NoEvent EXCEPT !.op = op]
    /\ UNCHANGED <<s, w, prescriptLW, postscriptLW, stack, alive, hist>>

\* 'Add Line Above'
addLineAbove(currentRow, cap) ==
    /\ Room(1, cap)
    /\ ListEdit(insertItem(gcodeLW, currentRow, NewLine), self, "addLineAbove")

\* 'Add Line Below'
addLineBelow(currentRow, cap) ==
    /\ Room(1, cap)
    /\ ListEdit(insertItem(gcodeLW, currentRow + 1, NewLine), self, "addLineBelow")

\* 'Log to this Line'
logToLine(currentRow) ==
    ListEdit(gcodeLW, [self EXCEPT !.logToLine = Row(currentRow)], "logToLine")

\* 'Delete Line'
deleteLine(currentRow) ==
    ListEdit(takeItem(gcodeLW, currentRow), self, "deleteLine")

\* 'Delete All Lines': the confirmation box is shown
deleteAll ==
    /\ Interactive
    /\ stack' = Append(stack, ConfirmFrame)
    /\ ev' = [NoEvent EXCEPT !.op = "deleteAll"]
    /\ UNCHANGED <<s, w, self, gcodeLW, prescriptLW, postscriptLW, alive, hist>>

\* the operator answers the confirmation box; on Yes the list is cleared
confirm(yes) ==
    /\ alive /\ stack # <<>>
    /\ Top(stack).h = "eventFilter"
    /\ stack' = Pop(stack)
    /\ gcodeLW' = IF yes THEN <<>> ELSE gcodeLW
    /\ ev' = [NoEvent EXCEPT !.op = "confirm"]
    /\ UNCHANGED <<s, w, self, prescriptLW, postscriptLW, alive, hist>>

\* an item of the main log is double-clicked and its text edited to t
editItem(row, t) ==
    /\ row + 1 \in DOMAIN gcodeLW
    /\ ListEdit([gcodeLW EXCEPT ![row + 1] = Item(t)], [self EXCEPT !.logToLine = NoneRow],
                "editItem")

\* an item of the main log is double-clicked for editing
doubleClickedGcode ==
    /\ gcodeLW # <<>>
    /\ ListEdit(gcodeLW, [self EXCEPT !.logToLine = NoneRow], "doubleClickedGcode")

-----------------------------------------------------------------------------
(* The state after MainWindow.__init__.                                    *)

Zero9 == <<0, 0, 0, 0, 0, 0, 0, 0, 0>>

\* a status with the watched lines din, dout, ain, aout and the position x, y
Stat(din, dout, ain, aout, x, y) ==
    [din |-> [i \in 0..1 |-> IF i = 0 THEN din ELSE FALSE],
     dout |-> [i \in 0..1 |-> IF i = 0 THEN dout ELSE FALSE],
     ain |-> [i \in 0..1 |-> IF i = 0 THEN ain ELSE 0],
     aout |-> [i \in 0..1 |-> IF i = 0 THEN aout ELSE 0],
     actual_position |-> <<x, y, 0, 0, 0, 0, 0, 0, 0>>,
     g5x_offset |-> Zero9, g92_offset |-> Zero9, tool_offset |-> Zero9]

\* the widgets as setupGui and setupAxes leave them
Widgets ==
    [dinCB |-> FALSE, doutCB |-> FALSE, ainCB |-> FALSE, aoutCB |-> FALSE,
     dinSB |-> 0, doutSB |-> 0, ainSB |-> 0, aoutSB |-> 0,
     dinLogic |-> "true", doutLogic |-> "true",
     ainOnLogic |-> "<", ainOnValue |-> 0, ainOffValue |-> 0, ainStyle |-> "",
     aoutOnLogic |-> "<", aoutOnValue |-> 0, aoutOffValue |-> 0, aoutStyle |-> "",
     moveTypeEnableCB |-> FALSE, moveType |-> "G0",
     feedLE |-> "", feedStyle |-> "", arcRadiusLE |-> "", arcRadiusStyle |-> "",
     logCommentLE |-> "",
     axis_cbs |-> [i \in 0..8 |-> IF \E k \in 1..Len(axes) : axes[k] = i
                                  THEN "checked" ELSE "None"],
     position_lbs |-> [i \in 0..8 |-> IF \E k \in 1..Len(axes) : axes[k] = i
                                      THEN PosLabel ELSE NoLabel],
     precisionSB |-> 3, positionCB |-> "relative",
     autosaveCB |-> FALSE, prescriptCB |-> FALSE, postscriptCB |-> FALSE]

\* the fields setupVars and setupLogTimer set
Fields ==
    [lastPosition |-> <<>>,
     dinLog |-> FALSE, doutLog |-> FALSE, ainLog |-> FALSE, aoutLog |-> FALSE,
     dinInput |-> 0, doutInput |-> 0, ainInput |-> 0, aoutInput |-> 0,
     logToLine |-> NoneRow, filePathIsFile |-> FALSE, file |-> <<>>, recordTimer |-> FALSE]

\* the state after construction, with the widgets wd that the .ui file and
\* loadSettings have set
InitWith(wd) ==
    /\ s = Stat(FALSE, FALSE, 0, 0, 0, 0)
    /\ w = wd
    /\ self = Fields
    /\ gcodeLW = <<>>
    /\ prescriptLW = <<>>
    /\ postscriptLW = <<>>
    /\ stack = <<>>
    /\ alive = TRUE
    /\ ev = NoEvent
    /\ hist = [prev |-> [c \in Chan |-> "none"],
               steady |-> [din |-> wd.dinCB, dout |-> wd.doutCB,
                           ain |-> wd.ainCB, aout |-> wd.aoutCB]]

-----------------------------------------------------------------------------
(* The digital channels: both watched lines change from tick to tick, the  *)
(* operator enables the channels, changes their logic and picks the move   *)
(* type, and a log either succeeds or shows the missing-feed-rate box.     *)

InitEdge ==
    \E dl \in {"true", "false"}, ol \in {"true", "false"}, di \in BOOLEAN, do \in BOOLEAN :
        InitWith([Widgets EXCEPT !.dinLogic = dl, !.doutLogic = ol, !.dinCB = di, !.doutCB = do,
                                 !.moveTypeEnableCB = TRUE])

PollEdge ==
    \E din \in BOOLEAN, dout \in BOOLEAN : update_poll(Stat(din, dout, 0, 0, 0, 0), MaxLines)

MoveEdge == \E mt \in {"G0", "G1"} : moveType_toggled(mt)

NextEdge ==
    \/ PollEdge
    \/ update_din
    \/ update_dout
    \/ update_ain
    \/ update_aout
    \/ mbox
    \/ MoveEdge
    \/ dinCB_toggled
    \/ doutCB_toggled
    \/ dinLogic_changed
    \/ doutLogic_changed

SpecEdge == InitEdge /\ [][NextEdge]_vars

-----------------------------------------------------------------------------
(* The composer: the operator picks the move type and edits the feed rate  *)
(* and the arc radius, the machine moves between two points, and log is    *)
(* called by the button, by the interval timer and by the digital input.   *)

InitCompose ==
    InitWith([Widgets EXCEPT !.moveTypeEnableCB = TRUE, !.dinCB = TRUE])

PollCompose ==
    \E din \in BOOLEAN, p \in {<<0, 0>>, <<6, 8>>} :
        update_poll(Stat(din, FALSE, 0, 0, p[1], p[2]), MaxCompose)

MoveCompose == \E mt \in {"G0", "G1", "G2", "G3"} : moveType_toggled(mt)

FeedCompose == \E t \in {"", "5"} : feedLE_textEdited(t)

RadiusCompose == \E t \in {"", "3", "5"} : arcRadiusLE_textEdited(t)

ConfirmCompose == \E yes \in BOOLEAN : confirm(yes)

CursorCompose == gcodeLW # <<>> /\ self.logToLine.none /\ logToLine(0)

NextCompose ==
    \/ PollCompose
    \/ update_din
    \/ update_dout
    \/ update_ain
    \/ update_aout
    \/ mbox
    \/ log_clicked(MaxCompose)
    \/ deleteAll
    \/ ConfirmCompose
    \/ CursorCompose
    \/ MoveCompose
    \/ FeedCompose
    \/ RadiusCompose

SpecCompose == InitCompose /\ [][NextCompose]_vars

-----------------------------------------------------------------------------
(* The analog channels: both watched values change from tick to tick, the  *)
(* operator enables the channels and changes their logic and their on and  *)
(* off values, and a log of a G1 move succeeds or shows the                *)
(* missing-feed-rate box.                                                  *)

Levels == {2, 5}

Samples == {1, 3, 6}

InitAnalog ==
    InitWith([Widgets EXCEPT !.ainCB = TRUE, !.ainOnLogic = ">", !.ainOnValue = 5, !.ainOffValue = 2,
                             !.aoutCB = TRUE, !.aoutOnLogic = ">", !.aoutOnValue = 5, !.aoutOffValue = 2,
                             !.moveTypeEnableCB = TRUE, !.moveType = "G1"])

PollAnalog ==
    \E ain \in Samples : update_poll(Stat(FALSE, FALSE, ain, ain, 0, 0), MaxCompose)

FeedAnalog == \E t \in {"", "5"} : feedLE_textEdited(t)

AinOnValueAnalog == \E v \in Levels : ainOnValue_changed(v)

AinOffValueAnalog == \E v \in Levels : ainOffValue_changed(v)

NextAnalog ==
    \/ PollAnalog
    \/ update_din
    \/ update_dout
    \/ update_ain
    \/ update_aout
    \/ mbox
    \/ FeedAnalog
    \/ ainCB_toggled
    \/ ainOnLogic_changed
    \/ aoutOnLogic_changed
    \/ AinOnValueAnalog
    \/ AinOffValueAnalog

SpecAnalog == InitAnalog /\ [][NextAnalog]_vars

-----------------------------------------------------------------------------
(* The feed rate: every text of the feed entry, with every move type.      *)

InitFeed == InitWith([Widgets EXCEPT !.moveTypeEnableCB = TRUE])

PollFeed == \E p \in {<<0, 0>>, <<6, 8>>} : update_poll(Stat(FALSE, FALSE, 0, 0, p[1], p[2]), MaxCompose)

MoveFeed == \E mt \in {"G0", "G1", "G2", "G3"} : moveType_toggled(mt)

FeedFeed == \E t \in {"", "0", "5", "-1", "x"} : feedLE_textEdited(t)

RadiusFeed == \E t \in {"", "5"} : arcRadiusLE_textEdited(t)

ConfirmFeed == \E yes \in BOOLEAN : confirm(yes)

RecordFeed == \E start \in BOOLEAN : start # self.recordTimer /\ record(start)

NextFeed ==
    \/ PollFeed
    \/ update_din
    \/ update_dout
    \/ update_ain
    \/ update_aout
    \/ mbox
    \/ log_clicked(MaxCompose)
    \/ recordTimer_timeout(MaxCompose)
    \/ RecordFeed
    \/ deleteAll
    \/ ConfirmFeed
    \/ MoveFeed
    \/ FeedFeed
    \/ RadiusFeed

SpecFeed == InitFeed /\ [][NextFeed]_vars

-----------------------------------------------------------------------------
(* The insertion cursor: the operator adds and deletes lines of the main   *)
(* log at the current row, sets the cursor there, and logs positions in    *)
(* the simple mode.  The current row is a row of the list, or -1 when no   *)
(* row is current.                                                         *)

CurrentRows == -1..(Len(gcodeLW) - 1)

InitCursor == InitWith(Widgets)

PollCursor == \E x \in {0, 6} : update_poll(Stat(FALSE, FALSE, 0, 0, x, 0), MaxLines)

AddLineAboveCursor == \E r \in CurrentRows : addLineAbove(r, MaxLines)

AddLineBelowCursor == \E r \in CurrentRows : addLineBelow(r, MaxLines)

LogToLineCursor == \E r \in CurrentRows : logToLine(r)

DeleteLineCursor == \E r \in CurrentRows : deleteLine(r)

ConfirmCursor == \E yes \in BOOLEAN : confirm(yes)

NextCursor ==
    \/ PollCursor
    \/ update_din
    \/ update_dout
    \/ update_ain
    \/ update_aout
    \/ log_clicked(MaxLines)
    \/ AddLineAboveCursor
    \/ AddLineBelowCursor
    \/ LogToLineCursor
    \/ DeleteLineCursor
    \/ deleteAll
    \/ ConfirmCursor
    \/ doubleClickedGcode

SpecCursor == InitCursor /\ [][NextCursor]_vars

-----------------------------------------------------------------------------
(* The one-shot cursor: the operator sets the cursor on a row of the main  *)
(* log and logs G1 moves, which succeed or show the missing-feed-rate box. *)

InitOneShot == InitWith([Widgets EXCEPT !.moveTypeEnableCB = TRUE, !.moveType = "G1"])

PollOneShot == \E x \in {0, 6} : update_poll(Stat(FALSE, FALSE, 0, 0, x, 0), MaxOneShot)

FeedOneShot == \E t \in {"", "5"} : feedLE_textEdited(t)

LogToLineOneShot == \E r \in 0..(Len(gcodeLW) - 1) : logToLine(r)

NextOneShot ==
    \/ PollOneShot
    \/ update_din
    \/ update_dout
    \/ update_ain
    \/ update_aout
    \/ log_clicked(MaxOneShot)
    \/ mbox
    \/ FeedOneShot
    \/ LogToLineOneShot

SpecOneShot == InitOneShot /\ [][NextOneShot]_vars

-----------------------------------------------------------------------------
(* The script file: the operator opens small files, saves the document,   *)
(* opens what was saved, shows and hides the prescript and the postscript, *)
(* and edits the text of a line.  A file is opened over a prescript and a  *)
(* postscript of at most MaxSaved lines together.                          *)

\* the texts of at most n lines with texts of T, with and without a newline at
\* the end
FileContents(T, n) ==
    {Join([i \in 1..Len(ls) |-> Item(ls[i])]) \o tail :
        ls \in UNION {[1..k -> T] : k \in 0..n}, tail \in {<<>>, <<NL>>}}

InitFile == InitWith(Widgets)

GetOpenFile ==
    \/ getOpenFileName(FALSE, FALSE, <<>>)
    \/ getOpenFileName(TRUE, TRUE, self.file)
    \/ /\ Len(prescriptLW) + Len(postscriptLW) <= MaxSaved
       /\ \E text \in FileContents({"a", prescript_start, postscript_start}, MaxSaved) :
             getOpenFileName(TRUE, FALSE, text)

GetSaveFile == \E chosen \in BOOLEAN : getSaveFileName(chosen)

EditFile == \E r \in 0..(Len(gcodeLW) - 1), t \in {prescript_start, postscript_end} : editItem(r, t)

NextFile ==
    \/ openFile
    \/ GetOpenFile
    \/ saveFile
    \/ GetSaveFile
    \/ prescriptCB_Clicked
    \/ postscriptCB_Clicked
    \/ EditFile

SpecFile == InitFile /\ [][NextFile]_vars

-----------------------------------------------------------------------------
(* The scan of openFile: one file of every content is opened, under every  *)
(* setting of the two toggles.                                             *)

Markers == {prescript_start, prescript_end, postscript_start, postscript_end}

InitScan ==
    \E pre \in BOOLEAN, post \in BOOLEAN :
        InitWith([Widgets EXCEPT !.prescriptCB = pre, !.postscriptCB = post])

GetOpenScan ==
    \/ getOpenFileName(FALSE, FALSE, <<>>)
    \/ /\ ~self.filePathIsFile
       /\ \E text \in FileContents({"a", ""} \cup Markers, MaxFile) :
             getOpenFileName(TRUE, FALSE, text)

NextScan ==
    \/ openFile
    \/ GetOpenScan

SpecScan == InitScan /\ [][NextScan]_vars

-----------------------------------------------------------------------------
(* The arcs: the machine moves between three points, the operator picks    *)
(* the move type and the arc radius, and logs with the button.             *)

InitArc ==
    InitWith([Widgets EXCEPT !.moveTypeEnableCB = TRUE])

PollArc ==
    \E p \in {<<0, 0>>, <<10, 0>>, <<6, 8>>} :
        update_poll(Stat(FALSE, FALSE, 0, 0, p[1], p[2]), MaxArc)

MoveArc == \E mt \in {"G1", "G2", "G3"} : moveType_toggled(mt)

RadiusArc == \E t \in {"0", "4", "5", "13"} : arcRadiusLE_textEdited(t)

NextArc ==
    \/ PollArc
    \/ update_din
    \/ update_dout
    \/ update_ain
    \/ update_aout
    \/ log_clicked(MaxArc)
    \/ mbox
    \/ MoveArc
    \/ feedLE_textEdited("5")
    \/ RadiusArc

SpecArc == InitArc /\ [][NextArc]_vars

-----------------------------------------------------------------------------
(* Interval recording beside the digital input: the operator starts and    *)
(* stops the recording and picks G0 or G2 with a feed rate and a radius,   *)
(* the watched line changes and the machine moves between two points.      *)

InitRecord ==
    InitWith([Widgets EXCEPT !.moveTypeEnableCB = TRUE, !.dinCB = TRUE])

PollRecord ==
    \E din \in BOOLEAN, p \in {<<0, 0>>, <<6, 8>>} :
        update_poll(Stat(din, FALSE, 0, 0, p[1], p[2]), MaxRecord)

RecordRecord == \E start \in BOOLEAN : start # self.recordTimer /\ record(start)

MoveRecord == \E mt \in {"G0", "G2"} : moveType_toggled(mt)

NextRecord ==
    \/ PollRecord
    \/ update_din
    \/ update_dout
    \/ update_ain
    \/ update_aout
    \/ mbox
    \/ recordTimer_timeout(MaxRecord)
    \/ RecordRecord
    \/ MoveRecord
    \/ feedLE_textEdited("5")
    \/ arcRadiusLE_textEdited("5")

SpecRecord == InitRecord /\ [][NextRecord]_vars

-----------------------------------------------------------------------------
(* The axes: the operator ticks and unticks the check boxes of X and Z,    *)
(* the machine moves between two points in space, and lines and arcs are   *)
(* logged with the button.                                                 *)

InitAxes ==
    InitWith([Widgets EXCEPT !.moveTypeEnableCB = TRUE])

PollAxes ==
    \E p \in {<<6, 8, 0>>, <<0, 6, 8>>} :
        update_poll([Stat(FALSE, FALSE, 0, 0, p[1], p[2]) EXCEPT !.actual_position[3] = p[3]],
                    MaxAxes)

NextAxes ==
    \/ PollAxes
    \/ update_din
    \/ update_dout
    \/ update_ain
    \/ update_aout
    \/ log_clicked(MaxAxes)
    \/ mbox
    \/ \E i \in {0, 2} : axisCB_toggled(i)
    \/ \E mt \in {"G1", "G2"} : moveType_toggled(mt)
    \/ feedLE_textEdited("5")
    \/ arcRadiusLE_textEdited("5")

SpecAxes == InitAxes /\ [][NextAxes]_vars

-----------------------------------------------------------------------------
(* The watched lines: each channel has two lines, the operator picks the   *)
(* line of each channel with its spin box, and the digital and the analog  *)
(* input are enabled.                                                      *)

InitInput ==
    InitWith([Widgets EXCEPT !.dinCB = TRUE, !.ainCB = TRUE, !.ainOnLogic = ">",
                             !.ainOnValue = 5, !.ainOffValue = 2])

PollInput ==
    \E d \in BOOLEAN, a \in {1, 6} :
        update_poll([Stat(d, d, a, a, 0, 0) EXCEPT !.din[1] = ~d, !.dout[1] = ~d,
                                                   !.ain[1] = 7 - a, !.aout[1] = 7 - a],
                    MaxInput)

NextInput ==
    \/ PollInput
    \/ update_din
    \/ update_dout
    \/ update_ain
    \/ update_aout
    \/ \E ch \in Chan, v \in 0..1 : inputSB_valueChanged(ch, v)

SpecInput == InitInput /\ [][NextInput]_vars

-----------------------------------------------------------------------------
(* The composed line: the operator picks the move type, ticks and unticks  *)
(* the Z axis, writes and clears the comment, logs with the button and     *)
(* deletes all lines.                                                      *)

InitLine ==
    InitWith([Widgets EXCEPT !.moveTypeEnableCB = TRUE])

PollLine ==
    \E p \in {<<0, 0>>, <<6, 8>>} : update_poll(Stat(FALSE, FALSE, 0, 0, p[1], p[2]), MaxLine)

NextLine ==
    \/ PollLine
    \/ update_din
    \/ update_dout
    \/ update_ain
    \/ update_aout
    \/ log_clicked(MaxLine)
    \/ mbox
    \/ deleteAll
    \/ confirm(TRUE)
    \/ axisCB_toggled(2)
    \/ \E mt \in {"G0", "G1", "G2", "G3"} : moveType_toggled(mt)
    \/ feedLE_textEdited("5")
    \/ arcRadiusLE_textEdited("5")
    \/ \E c \in {"", "c"} :
          c # w.logCommentLE /\ Edit([w EXCEPT !.logCommentLE = c], "logCommentLE")
                            /\ UNCHANGED hist

SpecLine == InitLine /\ [][NextLine]_vars

-----------------------------------------------------------------------------
(* The latches beside everything else: the digital and the analog input    *)
(* are enabled and their lines change, the operator logs with the button,  *)
(* records at intervals, opens and saves files, sets the cursor and edits  *)
(* the main log.                                                           *)

NextLatch ==
    \/ \E d \in BOOLEAN, a \in {1, 6} : update_poll(Stat(d, FALSE, a, 0, 0, 0), MaxLatch)
    \/ update_din
    \/ update_dout
    \/ update_ain
    \/ update_aout
    \/ mbox
    \/ log_clicked(MaxLatch)
    \/ recordTimer_timeout(MaxLatch)
    \/ record(~self.recordTimer)
    \/ \E mt \in {"G0", "G1"} : moveType_toggled(mt)
    \/ openFile
    \/ getOpenFileName(FALSE, FALSE, <<>>)
    \/ getOpenFileName(TRUE, TRUE, self.file)
    \/ saveFile
    \/ \E chosen \in BOOLEAN : getSaveFileName(chosen)
    \/ logToLine(0)
    \/ addLineAbove(0, MaxLatch)
    \/ deleteLine(0)
    \/ doubleClickedGcode

SpecLatch ==
    /\ InitWith([Widgets EXCEPT !.dinCB = TRUE, !.ainCB = TRUE, !.ainOnLogic = ">",
                                !.ainOnValue = 5, !.ainOffValue = 2,
                                !.moveTypeEnableCB = TRUE])
    /\ [][NextLatch]_vars


-----------------------------------------------------------------------------
(* Enabling and disabling: the digital and the analog input start          *)
(* disabled, their lines change from tick to tick, the operator ticks and  *)
(* unticks their check boxes, and positions are logged in the simple mode, *)
(* which shows no dialog.                                                  *)

NextEnable ==
    \/ \E d \in BOOLEAN, a \in {1, 6} : update_poll(Stat(d, FALSE, a, 0, 0, 0), MaxInput)
    \/ update_din
    \/ update_dout
    \/ update_ain
    \/ update_aout
    \/ dinCB_toggled
    \/ ainCB_toggled

SpecEnable ==
    /\ InitWith([Widgets EXCEPT !.ainOnLogic = ">", !.ainOnValue = 5, !.ainOffValue = 2])
    /\ [][NextEnable]_vars


-----------------------------------------------------------------------------
(* Loading over a document: the operator opens one small file after the    *)
(* other and shows and hides the prescript and the postscript between      *)
(* them.                                                                   *)

NextLoad ==
    \/ openFile
    \/ getOpenFileName(FALSE, FALSE, <<>>)
    \/ \E text \in FileContents({"a", prescript_start, postscript_start}, MaxLoad) :
          getOpenFileName(TRUE, FALSE, text)
    \/ prescriptCB_Clicked
    \/ postscriptCB_Clicked

SpecLoad == InitWith(Widgets) /\ [][NextLoad]_vars


-----------------------------------------------------------------------------
(* The positions: the machine moves from tick to tick, the digital input   *)
(* and the digital output are enabled and their lines change, the operator *)
(* logs with the button and records at intervals, G0 and G1 moves are      *)
(* logged with and without a feed rate, and autosave asks for a file name  *)
(* after the first line.                                                   *)

NextPosition ==
    \/ \E d \in BOOLEAN, o \in BOOLEAN, x \in {0, 6} :
          update_poll(Stat(d, o, 0, 0, x, 0), MaxPosition)
    \/ update_din
    \/ update_dout
    \/ update_ain
    \/ update_aout
    \/ mbox
    \/ \E chosen \in BOOLEAN : saveFileAs(chosen)
    \/ log_clicked(MaxPosition)
    \/ recordTimer_timeout(MaxPosition)
    \/ record(~self.recordTimer)
    \/ \E mt \in {"G0", "G1"} : moveType_toggled(mt)

SpecPosition ==
    /\ InitWith([Widgets EXCEPT !.dinCB = TRUE, !.doutCB = TRUE, !.moveTypeEnableCB = TRUE,
                                !.autosaveCB = TRUE])
    /\ [][NextPosition]_vars


-----------------------------------------------------------------------------
(* Claims.                                                                 *)

Latches == <<self.dinLog, self.doutLog, self.ainLog, self.aoutLog>>

\* the number of runs of log that have not returned
LogsInFlight == Cardinality({i \in DOMAIN stack : stack[i].h = "log"})

\* C1: a digital channel that has stayed enabled with the same logic since the
\* start fires on a tick exactly when its sample is in the logged state on this
\* tick and was not on the previous tick (or there was none).
C1_FiresOnRisingEdgeOnly ==
    [][\A ch \in {"din", "dout"} :
          (Running /\ Top(stack).pc = ch /\ hist.steady[ch])
          => (ev'.fired <=> (hist'.prev[ch] = "logged" /\ hist.prev[ch] # "logged"))]_vars

AnalogSetup(ch) ==
    IF ch = "ain" THEN <<w.ainOnLogic, w.ainOnValue, w.ainOffValue, s.ain[self.ainInput], w.ainCB>>
    ELSE <<w.aoutOnLogic, w.aoutOnValue, w.aoutOffValue, s.aout[self.aoutInput], w.aoutCB>>

AnalogStyle(wd, ch) == IF ch = "ain" THEN wd.ainStyle ELSE wd.aoutStyle

\* C2: an analog channel that has stayed enabled with the same ordered setup
\* since the start fires on a tick exactly when its sample passes the on value
\* on this tick and the channel was not in the logged state, that is, had not
\* passed the on value since it last passed the off value; so 1, 6, 6, 1 with
\* on value 5 and off value 2 fires once, at the first 6.
C2_FiresOnLatchTransition ==
    [][\A ch \in {"ain", "aout"} :
          (Running /\ Top(stack).pc = ch /\ hist.steady[ch]
             /\ Ordered(AnalogSetup(ch)[1], AnalogSetup(ch)[2], AnalogSetup(ch)[3]))
          => (ev'.fired <=> (hist'.prev[ch] = "logged" /\ hist.prev[ch] # "logged"))]_vars

\* C3: the step of a tick for an analog channel whose on and off values are not
\* ordered as its on logic needs (equal values included) turns both value boxes
\* yellow, fires no log and leaves the latches and the main log, whatever the
\* sample and whether or not the channel is enabled.
C3_MisorderedNeverFires ==
    [][\A ch \in {"ain", "aout"} :
          (Running /\ Top(stack).pc = ch
             /\ ~Ordered(AnalogSetup(ch)[1], AnalogSetup(ch)[2], AnalogSetup(ch)[3]))
          => /\ ~ev'.fired
             /\ AnalogStyle(w', ch) = Yellow
             /\ Latches' = Latches
             /\ gcodeLW' = gcodeLW
             /\ LogsInFlight' = LogsInFlight]_vars

\* the enabled analog input, with equal on and off values, has just been
\* evaluated on a sample above both: yellow boxes and no log
C3_Witness ==
    /\ ev.op = "update_ain" /\ ~ev.fired
    /\ w.ainCB /\ ~self.ainLog
    /\ w.ainOnLogic = ">" /\ w.ainOnValue = w.ainOffValue
    /\ s.ain[self.ainInput] > w.ainOnValue
    /\ w.ainStyle = Yellow

\* C4 (as claimed): no step of a log attempt that a channel edge started and an
\* error aborted changes a latch.
C4_AbortedLogLeavesLatches ==
    [][(ev'.src \in Chan /\ ev'.err \in Taxonomy) => Latches' = Latches]_vars

\* C4 (amended): the aborted log itself writes no latch; when it returns, update
\* sets the latch of the channel that called it, as after a log that succeeded,
\* and leaves the other three latches; an attempt an exception ends sets none.
C4_LatchSetWhenAbortedLogReturns ==
    [][\A ch \in Chan :
          /\ (ev'.op # "mbox" /\ ev'.src = ch /\ ev'.err \in Taxonomy) => Latches' = Latches
          /\ (ev'.op = "mbox" /\ ev'.src = ch /\ ev'.ret = "return")
             => /\ self'[ChanLog[ch]]
                /\ \A o \in Chan \ {ch} : self'[ChanLog[o]] = self[ChanLog[o]]
          /\ (ev'.op = "mbox" /\ ev'.src = ch /\ ev'.ret = "raise") => Latches' = Latches]_vars

\* an aborted log of the digital input has returned: its latch is set and
\* nothing was logged
C4_Witness ==
    /\ ev.op = "mbox" /\ ev.src = "din" /\ ev.ret = "return" /\ ev.err = "RadiusTooSmall"
    /\ self.dinLog
    /\ gcodeLW = <<>>

Document == <<prescriptLW, gcodeLW, postscriptLW, self.logToLine, self.lastPosition>>

\* C5: no step of a log attempt that an error of the taxonomy aborts changes the
\* prescript, the main log, the postscript, the insertion cursor or lastPosition.
C5_AbortedLogKeepsDocument ==
    [][ev'.err \in Taxonomy => Document' = Document]_vars

\* a log at a set cursor was aborted and has returned; the line, the cursor and
\* the last position are still there
C5_Witness ==
    /\ ev.op = "mbox" /\ ev.err = "DegenerateMove" /\ ev.ret = "return"
    /\ gcodeLW # <<>>
    /\ ~self.logToLine.none
    /\ self.lastPosition # <<>>

\* C6: at most one run of log is in progress.
C6_OneLogInFlight == LogsInFlight <= 1

\* C7: a log attempt that ends after an error of the taxonomy has returned to
\* its caller, and the program goes on.
C7_ErrorsAreNotFatal ==
    (ev.err \in Taxonomy /\ ev.ret # "blocked") => (ev.ret = "return" /\ alive)

\* C8: when the box for the missing last position is closed, the attempt is
\* over: log returns without computing the arc and without a line.
C8_NoPriorPositionAborts ==
    [][(ev'.op = "mbox" /\ ev'.err = "NoPriorPosition")
       => (ev'.ret = "return" /\ ev'.res = "" /\ gcodeLW' = gcodeLW)]_vars

\* C9: a log of a G1, G2 or G3 move that stores a line has a feed rate that is
\* a number above zero.
C9_FeedRatePositive ==
    (ev.res = "ok" /\ w.moveTypeEnableCB /\ w.moveType \in {"G1", "G2", "G3"})
    => (TextIsFloat(w.feedLE) /\ TextFloat(w.feedLE) > 0)

\* C10: a log that succeeds while the cursor is set to k leaves the length of
\* the main log, puts the new entry at index k in place of the line that was
\* there, and leaves every other line where it was.
C10_ReplaceAtCursor ==
    [][(ev'.res = "ok" /\ ~self.logToLine.none)
       => LET k == self.logToLine.row
          IN  /\ Len(gcodeLW') = Len(gcodeLW)
              /\ k + 1 \in DOMAIN gcodeLW'
              /\ gcodeLW'[k + 1] = log.gcode
              /\ \A i \in DOMAIN gcodeLW' : i # k + 1 => gcodeLW'[i] = gcodeLW[i]]_vars

\* C11: a log that succeeds leaves the cursor unset, and one that finds it unset
\* appends its line at the end of the main log; no step of a log attempt that an
\* error aborts changes the cursor.
C11_CursorIsOneShot ==
    [][/\ ev'.res = "ok" => self'.logToLine.none
       /\ (ev'.res = "ok" /\ self.logToLine.none) => gcodeLW' = Append(gcodeLW, log.gcode)
       /\ ev'.err \in Taxonomy => self'.logToLine = self.logToLine]_vars

\* a log has just succeeded with the cursor unset, after an earlier one: its
\* line is the second of the main log
C11_Witness ==
    /\ ev.res = "ok" /\ ev.cur.none
    /\ self.logToLine.none
    /\ Len(gcodeLW) = 2
    /\ gcodeLW[1] # gcodeLW[2]

\* the file of filePath holds what save writes for the document as it is
Saved == self.filePathIsFile /\ self.file = save(w, prescriptLW, gcodeLW, postscriptLW)

\* C12: opening the file the document was saved to, with the toggles as they
\* were when it was saved, gives back the three lists when none of them is
\* empty, whatever the text of their lines.
C12_RoundTrip ==
    [][(ev'.op = "getOpenFileName" /\ ev'.res = "own" /\ Saved
          /\ prescriptLW # <<>> /\ gcodeLW # <<>> /\ postscriptLW # <<>>)
       => <<prescriptLW', gcodeLW', postscriptLW'>> = <<prescriptLW, gcodeLW, postscriptLW>>]_vars

\* the region the marker lines before line i of ls leave open: the one the last
\* of them starts, or the log when it is an end marker or there is none
RegionAt(ls, i) ==
    LET before == {j \in 1..(i - 1) : ItemText(ls[j]) \in Markers}
    IN  IF before = {} THEN "log"
        ELSE LET last == CHOOSE j \in before : \A k \in before : k <= j
             IN  IF ItemText(ls[last]) = prescript_start THEN "prescript"
                 ELSE IF ItemText(ls[last]) = postscript_start THEN "postscript"
                 ELSE "log"

\* the lines of ls that are no markers and lie in the region, in their order
RegionLines(ls, region) ==
    LET idx == SelectSeq([i \in 1..Len(ls) |-> i],
                         LAMBDA i : ItemText(ls[i]) \notin Markers /\ RegionAt(ls, i) = region)
    IN  [k \in 1..Len(idx) |-> ls[idx[k]]]

\* C13: opening a file never fails and classifies each line that is no marker
\* into the region the last marker before it opened, the log when that is an end
\* marker of either region or there is none; the main log gets the lines of the
\* log, and a shown prescript or postscript gets the lines of its region.
C13_LoadIsForwardScan ==
    [][(ev'.op = "getOpenFileName" /\ ev'.res # "")
       => LET ls == FileLines(self'.file, <<>>)
          IN  /\ alive'
              /\ gcodeLW' = RegionLines(ls, "log")
              /\ prescriptLW' = IF w.prescriptCB THEN RegionLines(ls, "prescript")
                                ELSE prescriptLW
              /\ postscriptLW' = IF w.postscriptCB THEN RegionLines(ls, "postscript")
                                 ELSE postscriptLW]_vars

\* a file has been opened in which the end marker of the prescript closes the
\* postscript: the line after it is in the main log
C13_Witness ==
    /\ ev.op = "getOpenFileName"
    /\ w.prescriptCB /\ w.postscriptCB
    /\ FileLines(self.file, <<>>) = <<Item(postscript_start), Item(prescript_end), Item("a")>>
    /\ gcodeLW = <<Item("a")>>
    /\ prescriptLW = <<>>
    /\ postscriptLW = <<>>

\* a step in which log runs from its first line
LogRun == ev'.src # "" /\ ev'.op \notin {"mbox", "saveFileAs"}

\* log is about to compute an arc: the move type is G2 or G3, the feed rate and
\* the radius are shown as valid, and both positions have their two coordinates
ArcReady ==
    /\ w.moveTypeEnableCB /\ w.moveType \in {"G2", "G3"}
    /\ HasWhite(w.feedStyle) /\ HasWhite(w.arcRadiusStyle)
    /\ Len(log_axes) >= 2 /\ Len(self.lastPosition) >= 2
    /\ \A k \in 1..Len(log_axes) : LabelIsFloat(log_labels[k])

\* the chord from the last logged position to the displayed one
Chord == [k \in 1..2 |-> LabelFloat(log_labels[k]) - self.lastPosition[k]]

Chord2 == Chord[1] * Chord[1] + Chord[2] * Chord[2]

Radius == TextFloat(w.arcRadiusLE)

\* C14: a log of an arc whose start and end are the same point reports
\* DegenerateMove, whatever the valid radius and the direction, reports no
\* other error and stores no line.
C14_DegenerateMove ==
    [][(LogRun /\ ArcReady /\ Chord = <<0, 0>>)
       => (ev'.err = "DegenerateMove" /\ ev'.res = "DegenerateMove" /\ gcodeLW' = gcodeLW)]_vars

\* the box of DegenerateMove is shown for a G3 arc of radius 0 that ends where
\* it starts
C14_Witness ==
    /\ ev.err = "DegenerateMove" /\ ev.ret = "blocked"
    /\ ArcReady /\ Chord = <<0, 0>>
    /\ w.moveType = "G3" /\ w.arcRadiusLE = "0"

\* C15: a log of an arc with a chord reports RadiusTooSmall exactly when
\* 4 * radius^2 < dx^2 + dy^2, it then names half the distance as the least
\* radius and stores no line, and every other radius is accepted: the line is
\* stored.
C15_RadiusTooSmall ==
    [][(LogRun /\ ArcReady /\ Chord # <<0, 0>>)
       => /\ (ev'.err = "RadiusTooSmall") <=> (4 * Radius * Radius < Chord2)
          /\ (ev'.err = "RadiusTooSmall")
                => (ev'.msg = ISqrt(2500 * Chord2) /\ gcodeLW' = gcodeLW)
          /\ (4 * Radius * Radius >= Chord2) => ev'.res = "ok"]_vars

\* the arc from (0, 0) to (10, 0) with radius 4 is refused, and the box asks for
\* a radius of 5.00
C15_Witness ==
    /\ ev.err = "RadiusTooSmall" /\ ev.ret = "blocked" /\ ev.msg = 500
    /\ ArcReady /\ Chord = <<10, 0>> /\ self.lastPosition[1] = 0
    /\ w.arcRadiusLE = "4"

\* the centre offsets I and J of a composed arc line, in hundredths
Center(line) ==
    <<line[CHOOSE n \in DOMAIN line : line[n].k = "I"].num,
      line[CHOOSE n \in DOMAIN line : line[n].k = "J"].num>>

\* C16: a log of an arc whose radius is half the chord stores a line whose
\* centre is the midpoint of the chord, I = dx/2 and J = dy/2, for G2 and G3.
C16_Semicircle ==
    [][(LogRun /\ ArcReady /\ Chord # <<0, 0>> /\ 4 * Radius * Radius = Chord2)
       => /\ ev'.res = "ok"
          /\ Center(gcodeLW'[Len(gcodeLW')]) = <<50 * Chord[1], 50 * Chord[2]>>]_vars

\* the arc from (0, 0) to (10, 0) with radius 5 was logged as a G3 move with
\* I = 5.00 and J = 0.00
C16_Witness ==
    /\ ev.res = "ok" /\ w.moveType = "G3" /\ w.arcRadiusLE = "5"
    /\ Len(gcodeLW) = 2
    /\ gcodeLW[1][2].num = 0 /\ gcodeLW[2][2].num = 10 /\ gcodeLW[2][3].num = 0
    /\ gcodeLW[2][1].txt = "G3"
    /\ Center(gcodeLW[2]) = <<500, 0>>

\* C17: the centre of a logged arc is the midpoint of the chord displaced at a
\* right angle to the chord by sqrt(radius^2 - (distance/2)^2), to the right of
\* the direction of travel for G2 and to the left for G3; it is at the distance
\* radius from the start and from the end, and the centres of G2 and G3 mirror
\* each other in the chord.  Lengths are in hundredths and are met within two.
C17_CenterOfArc ==
    [][(LogRun /\ ArcReady /\ Chord # <<0, 0>> /\ ev'.res = "ok")
       => LET c == Center(gcodeLW'[Len(gcodeLW')])
              e == <<c[1] - 100 * Chord[1], c[2] - 100 * Chord[2]>>
              v == <<c[1] - 50 * Chord[1], c[2] - 50 * Chord[2]>>
              R == 100 * Radius
              off == ISqrt(R * R - 2500 * Chord2)
              cross == Chord[1] * v[2] - Chord[2] * v[1]
              dot == Chord[1] * v[1] + Chord[2] * v[2]
              other == arc_ij(Chord[1], Chord[2], Radius,
                              IF w.moveType = "G2" THEN "G3" ELSE "G2")
              Near(q, len) == /\ (len > 2 => (len - 2) * (len - 2) <= q)
                              /\ q <= (len + 2) * (len + 2)
          IN  /\ Near(c[1] * c[1] + c[2] * c[2], R)
              /\ Near(e[1] * e[1] + e[2] * e[2], R)
              /\ Near(v[1] * v[1] + v[2] * v[2], off)
              /\ dot * dot <= Chord2 * 4
              /\ w.moveType = "G2" => cross <= 0
              /\ w.moveType = "G3" => cross >= 0
              /\ 4 * Radius * Radius > Chord2 => cross # 0
              /\ c[1] + other[1] = 100 * Chord[1]
              /\ c[2] + other[2] = 100 * Chord[2]]_vars

\* the arc from (0, 0) to (6, 8) with radius 13 was logged as a G2 move: the
\* centre is at I = 12.60, J = -3.20, on the right of the way from start to end
C17_Witness ==
    /\ ev.res = "ok" /\ w.moveType = "G2" /\ w.arcRadiusLE = "13"
    /\ Len(gcodeLW) = 2
    /\ gcodeLW[1][2].num = 0 /\ gcodeLW[1][3].num = 0
    /\ gcodeLW[2][2].num = 6 /\ gcodeLW[2][3].num = 8
    /\ gcodeLW[2][1].txt = "G2"
    /\ Center(gcodeLW[2]) = <<1260, 0 - 320>>

\* C18: the decision and the latch of a channel are fixed by the samples: on
\* every tick a channel that has kept its setup since the start fires exactly
\* when its sample enters the logged state, and its latch, when the tick comes
\* to the channel, tells whether the samples before left it in the logged state.
C18_DecisionsFollowSamples ==
    [][\A ch \in Chan :
          (Running /\ Top(stack).pc = ch /\ hist.steady[ch]
             /\ (ch \in {"ain", "aout"}
                   => Ordered(AnalogSetup(ch)[1], AnalogSetup(ch)[2], AnalogSetup(ch)[3])))
          => /\ ev'.fired <=> (hist'.prev[ch] = "logged" /\ hist.prev[ch] # "logged")
             /\ self[ChanLog[ch]] <=> (hist.prev[ch] = "logged")]_vars

\* C19: a tick evaluates the channels in the order din, dout, ain, aout; when
\* it comes to a channel no run of log is in progress, the log of every channel
\* before it having run to its end; a channel that fires puts its one line into
\* the main log in that step and one that does not fire puts none; and the tick
\* then goes on to the next channel.
C19_ChannelsInOrder ==
    [][\A ch \in Chan :
          (Running /\ Top(stack).pc = ch)
          => /\ LogsInFlight = 0
             /\ ev'.op = (CASE ch = "din" -> "update_din" [] ch = "dout" -> "update_dout"
                            [] ch = "ain" -> "update_ain" [] OTHER -> "update_aout")
             /\ (ev'.fired /\ ev'.res = "ok")
                   => (Len(gcodeLW') = Len(gcodeLW) + 1 - Reuse
                       /\ \E k \in DOMAIN gcodeLW' : gcodeLW'[k] = log.gcode)
             /\ ~ev'.fired => gcodeLW' = gcodeLW
             /\ (~ev'.fired \/ ev'.ret = "return") => stack' = Advance(stack)
             /\ (ev'.fired /\ ev'.ret = "blocked")
                   => (Len(stack') = Len(stack) + 1 /\ stack'[Len(stack)] = Top(stack))]_vars

\* C20: a click on Start or Stop changes the interval timer and nothing else;
\* the interval timer logs only while recording is on, and its log leaves the
\* latches; and with recording started and stopped at any point the digital
\* input that has stayed enabled still fires on a tick exactly when its sample
\* enters the logged state.
C20_RecordingLeavesEdgeLogging ==
    [][/\ ev'.op = "record"
            => /\ [self' EXCEPT !.recordTimer = self.recordTimer] = self
               /\ UNCHANGED <<s, w, gcodeLW, prescriptLW, postscriptLW, stack, alive>>
       /\ ev'.op = "recordTimer_timeout" => (self.recordTimer /\ Latches' = Latches)
       /\ \A ch \in {"din", "dout"} :
             (Running /\ Top(stack).pc = ch /\ hist.steady[ch])
             => (ev'.fired <=> (hist'.prev[ch] = "logged" /\ hist.prev[ch] # "logged"))]_vars

\* C21: a log that stores an arc line has the X and the Y axis among its axes,
\* as the first two, and the centre of the line is the one of the chord from the
\* first two values of lastPosition to the displayed X and Y.
C21_ArcUsesXY ==
    [][(LogRun /\ ev'.res = "ok" /\ w.moveTypeEnableCB /\ w.moveType \in {"G2", "G3"})
       => /\ Len(log_axes) >= 2 /\ log_axes[1] = 0 /\ log_axes[2] = 1
          /\ Center(gcodeLW'[Len(gcodeLW')])
               = arc_ij(LabelFloat(w.position_lbs[0]) - self.lastPosition[1],
                        LabelFloat(w.position_lbs[1]) - self.lastPosition[2],
                        Radius, w.moveType)]_vars

\* the axis values a composed line holds, in the order of the line
LinePosition(line) ==
    LET at == SelectSeq(line, LAMBDA tk : tk.k \in {"X", "Y", "Z", "A", "B", "C", "U", "V", "W", "pos"})
    IN  [k \in 1..Len(at) |-> at[k].num]

\* C22: lastPosition is empty at the start; a log that succeeds, of any move
\* type and at the cursor or at the end, sets it to the position of its line;
\* and no other step changes it, a log that an error aborts included.
C22_LastPositionIsLastLog ==
    /\ self.lastPosition = <<>>
    /\ [][/\ ev'.res = "ok" => self'.lastPosition = LinePosition(log.gcode)
          /\ ev'.res # "ok" => self'.lastPosition = self.lastPosition]_vars

\* a G1 log at the cursor has replaced the first line while the machine was at
\* (6, 8): that is the last position
C22_Witness ==
    /\ ev.res = "ok" /\ ~ev.cur.none /\ w.moveType = "G1"
    /\ Len(gcodeLW) = 1 /\ LinePosition(gcodeLW[1]) = <<6, 8, 0>>
    /\ self.lastPosition = <<6, 8, 0>>

\* C23: when a tick comes to a channel, the line the channel evaluates is the one
\* its spin box selects.
C23_ChannelWatchesSelectedLine ==
    /\ (Running /\ Top(stack).pc = "din") => self.dinInput = w.dinSB
    /\ (Running /\ Top(stack).pc = "dout") => self.doutInput = w.doutSB
    /\ (Running /\ Top(stack).pc = "ain") => self.ainInput = w.ainSB
    /\ (Running /\ Top(stack).pc = "aout") => self.aoutInput = w.aoutSB

\* the kinds of the tokens of a line, in the order of the line
Kinds(line) == [k \in DOMAIN line |-> line[k].k]

\* C24: in move-type mode the line of a log that succeeds is the G-code word of
\* the selected move, then one token for each ticked axis in the order X, Y, Z,
\* A, B, C, U, V, W, then F with the feed rate when the move is G1, G2 or G3,
\* then I and J when the move is G2 or G3, then the comment when there is one;
\* and it is the line put into the main log.
C24_LineTokens ==
    [][(LogRun /\ ev'.res = "ok" /\ w.moveTypeEnableCB)
       => LET ticked == SelectSeq(<<0, 1, 2, 3, 4, 5, 6, 7, 8>>,
                                  LAMBDA i : w.axis_cbs[i] = "checked")
              line == gcodeLW'[Len(gcodeLW')]
          IN  /\ gcodeLW' = Append(gcodeLW, line)
              /\ Kinds(line)
                   = <<"G">> \o [k \in 1..Len(ticked) |-> axes_letters[ticked[k] + 1]]
                      \o (IF w.moveType \in {"G1", "G2", "G3"} THEN <<"F">> ELSE <<>>)
                      \o (IF w.moveType \in {"G2", "G3"} THEN <<"I", "J">> ELSE <<>>)
                      \o (IF w.logCommentLE # "" THEN <<";">> ELSE <<>>)
              /\ line[1].txt = w.moveType
              /\ \A k \in 1..Len(ticked) :
                    line[k + 1].num = LabelFloat(w.position_lbs[ticked[k]])
              /\ \A k \in DOMAIN line :
                    /\ line[k].k = "F" => line[k].txt = w.feedLE
                    /\ line[k].k = ";" => line[k].txt = w.logCommentLE]_vars

\* a G3 arc with the Z axis unticked and a comment has been logged: G3, X, Y,
\* F, I, J and the comment
C24_Witness ==
    /\ ev.res = "ok" /\ w.moveType = "G3" /\ w.logCommentLE = "c"
    /\ w.axis_cbs[2] = "unchecked"
    /\ Len(gcodeLW) = 1
    /\ Kinds(gcodeLW[1]) = <<"G", "X", "Y", "F", "I", "J", ";">>

\* C25: the four latches are clear after construction, and the latch of a
\* channel changes only in a step of that channel's own evaluation in update:
\* its branch, or the return of the log that branch called.  Manual and interval
\* logs, the File menu, the cursor, the edits of the main log and the branches
\* of the other channels leave it as it is.
C25_LatchOwnedByChannel ==
    /\ Latches = <<FALSE, FALSE, FALSE, FALSE>>
    /\ [][\A ch \in Chan :
            self'[ChanLog[ch]] # self[ChanLog[ch]]
            => \/ ev'.op \in {"update_din", "update_dout", "update_ain", "update_aout"}
                  /\ Running /\ Top(stack).pc = ch
               \/ ev'.op \in {"mbox", "saveFileAs"} /\ ev'.src = ch /\ ev'.ret = "return"]_vars

\* a manual log has written a line while the digital input's latch was set and
\* the analog input's was clear
C25_Witness ==
    /\ ev.op = "log_clicked" /\ ev.res = "ok"
    /\ self.dinLog /\ ~self.ainLog
    /\ self.filePathIsFile


DigitalValue(ch) == IF ch = "din" THEN s.din[self.dinInput] ELSE s.dout[self.doutInput]

DigitalLogic(ch) == IF ch = "din" THEN w.dinLogic ELSE w.doutLogic

\* C26: when the evaluation of an enabled digital channel in a tick is over, its
\* latch is set exactly when the sample of the tick is in the logged state under
\* the logic of the tick: a branch that called no log or whose log came back at
\* once leaves the latch equal to the state of the sample, and a log that
\* waited in a dialog leaves the latch set when the dialog is closed.  A sample
\* in the not-logged state clears the latch and fires nothing, whether or not
\* the channel is enabled.
C26_LatchFollowsSample ==
    [][\A ch \in {"din", "dout"} :
          /\ (Running /\ Top(stack).pc = ch /\ ChanChecked(ch) /\ ev'.ret # "blocked")
             => (self'[ChanLog[ch]] <=> InLogged(DigitalLogic(ch), DigitalValue(ch)))
          /\ (ev'.op \in {"mbox", "saveFileAs"} /\ ev'.src = ch) => self'[ChanLog[ch]]
          /\ (Running /\ Top(stack).pc = ch /\ ~InLogged(DigitalLogic(ch), DigitalValue(ch)))
             => (~self'[ChanLog[ch]] /\ ~ev'.fired)]_vars


\* C27: a channel fires on a tick only if its sample is in the logged state on
\* this tick and was not on the previous tick (or there was none), whether the
\* channel was enabled or disabled meanwhile; a channel that is enabled while
\* its sample stays in the logged state does not fire.
C27_FiresOnlyOnTransition ==
    [][\A ch \in Chan :
          (Running /\ Top(stack).pc = ch /\ ev'.fired)
          => (hist'.prev[ch] = "logged" /\ hist.prev[ch] # "logged")]_vars


Regions == {"prescript", "log", "postscript"}

\* the list widget of a region
RegionList(r) == IF r = "prescript" THEN prescriptLW ELSE IF r = "log" THEN gcodeLW ELSE postscriptLW

\* the region is loaded from a file: the main log always, the prescript and the
\* postscript when their check box is ticked
RegionShown(r) ==
    \/ r = "log"
    \/ r = "prescript" /\ w.prescriptCB
    \/ r = "postscript" /\ w.postscriptCB

\* C28 (as claimed): after a file is opened each of the three lists holds the
\* lines of the file that are no markers and lie in its region, in file order,
\* whatever the two toggles are: no line of the file is dropped.
C28_EveryLineLoaded ==
    [][(ev'.op = "getOpenFileName" /\ ev'.res # "")
       => \A r \in Regions : RegionList(r)' = RegionLines(FileLines(self'.file, <<>>), r)]_vars

\* C28 (amended): after a file is opened the main log and each shown list hold
\* the lines of the file that are no markers and lie in their region, in file
\* order, in place of what they held; a hidden list keeps what it held, and the
\* lines of the file in its region are in none of the lists.
C28_ShownRegionsLoaded ==
    [][(ev'.op = "getOpenFileName" /\ ev'.res # "")
       => \A r \in Regions :
             RegionList(r)' = IF RegionShown(r) THEN RegionLines(FileLines(self'.file, <<>>), r)
                              ELSE RegionList(r)]_vars

\* a file with a line in the postscript has been opened with both lists hidden:
\* the prescript has kept its line, and the line of the file is nowhere
C28_Witness ==
    /\ ev.op = "getOpenFileName" /\ ev.res = "other"
    /\ ~w.prescriptCB /\ ~w.postscriptCB
    /\ FileLines(self.file, <<>>) = <<Item(postscript_start), Item("a")>>
    /\ prescriptLW = <<Item("a")>>
    /\ gcodeLW = <<>>
    /\ postscriptLW = <<>>


\* C29: whenever the cursor is set it is a row of the main log.
C29_CursorIsValidRow ==
    ~self.logToLine.none => (0 <= self.logToLine.row /\ self.logToLine.row < Len(gcodeLW))


\* the positions of the logged axes among the nine positions p
OfLoggedAxes(p) == [k \in 1..Len(log_axes) |-> p[log_axes[k] + 1]]

\* C30: a log that a channel fires and that stores a line stores the positions
\* that the poll of its own tick displayed, and a log by the button or by the
\* interval timer that stores a line stores the positions of the latest poll; so
\* no line holds a position older than the latest poll.
C30_LogRecordsPolledPosition ==
    [][(LogRun /\ ev'.res = "ok") =>
          /\ gcodeLW' = Append(gcodeLW, gcodeLW'[Len(gcodeLW')])
          /\ LinePosition(gcodeLW'[Len(gcodeLW')]) = OfLoggedAxes([i \in 1..9 |-> display(s, i - 1)])
          /\ ev'.fired => LinePosition(gcodeLW'[Len(gcodeLW')]) = OfLoggedAxes(Top(stack).cp)]_vars

\* the button has logged at X0, the machine has moved to X6, and the tick that
\* found the digital output in the logged state has logged X6
C30_Witness ==
    /\ ev.op = "update_dout" /\ ev.fired /\ ev.res = "ok"
    /\ Len(gcodeLW) = 2
    /\ LinePosition(gcodeLW[1]) = <<0, 0, 0>>
    /\ LinePosition(gcodeLW[2]) = <<6, 0, 0>>
    /\ s.actual_position[1] = 6


\* no line of the document has the text of a marker
NoMarkerLines ==
    \A r \in Regions : \A i \in DOMAIN RegionList(r) : ItemText(RegionList(r)[i]) \notin Markers

\* a region of the document is empty, or the main log is written last and ends
\* in an empty line
HasEmptyRegion ==
    \/ \E r \in Regions : RegionList(r) = <<>>
    \/ ~w.postscriptCB /\ gcodeLW # <<>> /\ ItemText(gcodeLW[Len(gcodeLW)]) = ""

\* C31: opening the file the document was saved to, with the toggles as they
\* were when it was saved, leaves the number of lines of the prescript, of the
\* main log and of the postscript as it was, also when a region is empty or the
\* main log ends in an empty line.
C31_RoundTripKeepsLineCounts ==
    [][(ev'.op = "getOpenFileName" /\ ev'.res = "own" /\ Saved
          /\ NoMarkerLines /\ HasEmptyRegion)
       => \A r \in Regions : Len(RegionList(r)') = Len(RegionList(r))]_vars


====
